---- MODULE Spec2Model ----
(***************************************************************************)
(* Model of the consensus core and the chain synchronisation FSM of the    *)
(* node: the certificate registry (consensus/src/step_votes_reg.rs), the   *)
(* iteration counter and the vote-cast task (consensus/src/commons.rs),    *)
(* the chain FSM (node/src/chain/fsm.rs), the header validator             *)
(* (node/src/chain/header_validation.rs), the mempool service              *)
(* (node/src/mempool.rs), the proposal handler                             *)
(* (consensus/src/proposal/handler.rs) and the start of a step             *)
(* (consensus/src/phase.rs).                                               *)
(*                                                                         *)
(* Each component has its own specification (SpecReg, SpecRegSv, SpecCons, *)
(* SpecFsm, SpecSync, SpecQuorum, SpecHdr, SpecMp, SpecProp, SpecPhase);   *)
(* the variables of the other components stay at their initial values.     *)
(***************************************************************************)
EXTENDS Integers, Sequences, FiniteSets, TLC

VARIABLES
    \* ---- certificate registry (CertInfoRegistry) ----
    ru,          \* RoundUpdate of the registry: [round, hash]
    cert_list,   \* iteration -> NoEntry | IterationCerts
    regOut,      \* what the last registry call returned (and whether it logged an error)
    regCalls,    \* number of registry calls made so far (bounded)
    regCall,     \* the last registry call: its name and arguments (generator left out)
    regQuorums,  \* history: (iteration, vote) -> number of Quorum messages returned so far
    regQuorumSv, \* history: (iteration, slot, step) -> step-votes submitted with quorum_reached
    \* ---- iteration counter and vote-cast tasks (commons.rs) ----
    iter,          \* the u8 iteration counter of the round
    iterRet,       \* what the last IterCounter::next returned
    verified_hash, \* Arc<Mutex<[u8; 32]>>: the round's last verified hash
    executor,      \* holder of the executor mutex ("free" when unlocked)
    task,          \* per vote-cast task: position, candidate, step, locals
    outbound,      \* outbound queue (messages published)
    inbound,       \* inbound queue (own votes registered locally)
    \* ---- chain FSM (fsm.rs) ----
    acc,                \* the acceptor's ledger: chain of hashes, last final height
    curr,               \* State: InSyncImpl or OutOfSyncImpl and its fields
    blacklisted_blocks, \* SharedHashSet
    attestations_cache, \* hashes with a cached attestation
    stalled_sm,         \* the stall detector
    effects,            \* history: calls out of the FSM made by the last handler
    fsmCall,            \* history: the last handler call and what it did
    fsmEvents,          \* history: number of events handled
    \* ---- header validator (header_validation.rs) ----
    validator,   \* Validator: prev_header and the hashes the ledger (db) holds
    hvCall,      \* history: the last call of the validator and what it returned
    \* ---- mempool service (mempool.rs) ----
    mempool,     \* the mempool table of the db: transactions stored, with their age
    mp_inbound,  \* MempoolSrv.inbound: the queue of messages routed to the service
    tick_ready,  \* whether the tick of on_idle_event is due
    mpCall,      \* history: the last step of the service loop and what it did
    \* ---- proposal handler (proposal/handler.rs) ----
    candidate_db, \* ProposalHandler.db: the candidate blocks stored
    phCall,       \* history: the last call of the handler and what it returned
    \* ---- phase (phase.rs) ----
    round_committees, \* ctx.iter_ctx: the committee saved for each step
    phaseCall         \* history: the last Phase::run and what it did

regVars == <<ru, cert_list, regOut, regCalls, regCall, regQuorums, regQuorumSv>>
consVars == <<iter, iterRet, verified_hash, executor, task, outbound, inbound>>

fsmVars == <<acc, curr, blacklisted_blocks, attestations_cache, stalled_sm,
             effects, fsmCall, fsmEvents>>

hdrVars == <<validator, hvCall>>

\* the components of the node other than the registry, the vote-cast tasks
\* and the chain FSM
mpVars == <<mempool, mp_inbound, tick_ready, mpCall>>
propVars == <<candidate_db, phCall>>
phaseVars == <<round_committees, phaseCall>>
nodeVars == <<hdrVars, mpVars, propVars, phaseVars>>

vars == <<regVars, consVars, fsmVars, nodeVars>>

-----------------------------------------------------------------------------
(***************************************************************************)
(* Bounds of the model                                                     *)
(***************************************************************************)
\* number of registry calls explored in one round
MaxRegCalls == 3
\* config::CONSENSUS_MAX_ITER (configurable; scaled down)
CONSENSUS_MAX_ITER == 4
\* MAX_BLOCKS_TO_REQUEST (50 in fsm.rs; scaled down)
MAX_BLOCKS_TO_REQUEST == 2
\* number of chain events explored from a new node
MaxFsmEvents == 3
\* number of chain events explored from the start of a bulk sync
MaxSyncEvents == 4

\* Option::None
None == [none |-> TRUE]

-----------------------------------------------------------------------------
(***************************************************************************)
(* Iteration counter and vote-cast task: consensus/src/commons.rs          *)
(***************************************************************************)

\* [0u8; 32]
ZeroHash == "zero"

\* candidate blocks a vote-cast task is spawned for: the default block (no
\* candidate received) and two proposed blocks
Candidates ==
    {[hash |-> ZeroHash, event_hash |-> "e0", state_hash |-> "s0"],
     [hash |-> "h1", event_hash |-> "e1", state_hash |-> "s1"],
     [hash |-> "h2", event_hash |-> "e2", state_hash |-> "s2"]}

\* what verify_state_transition can return
VstOutputs ==
    {[ok |-> FALSE, event_hash |-> "-", state_root |-> "-"]}
    \cup {[ok |-> TRUE, event_hash |-> e, state_root |-> r] :
             e \in {"e1", "e2"}, r \in {"s1", "s2"}}

\* the tasks spawned by the validation and the ratification step
Tasks == {"validation", "ratification"}

\* IterCounter::STEP_NUM
STEP_NUM == 3

\* StepName as u8
StepPos(name) ==
    CASE name = "Proposal" -> 0
      [] name = "Validation" -> 1
      [] name = "Ratification" -> 2

\* IterCounter::step_from_name (u8 arithmetic)
step_from_name(i, name) == (i * STEP_NUM + StepPos(name)) % 256

\* IterCounter::from_step
from_step(step) == step \div STEP_NUM

\* IterCounter::to_step_name
to_step_name(step) ==
    CASE step % STEP_NUM = 0 -> "Proposal"
      [] step % STEP_NUM = 1 -> "Validation"
      [] step % STEP_NUM = 2 -> "Ratification"

\* mutant of next: the bound is compared with > instead of >=
next_off_by_one(i) ==
    LET n == (i + 1) % 256
    IN  IF n > CONSENSUS_MAX_ITER
        THEN [iter |-> i, ret |-> [ok |-> FALSE, value |-> 0]]
        ELSE [iter |-> n, ret |-> [ok |-> TRUE, value |-> n]]

\* IterCounter for u8 :: next: the counter afterwards and the Result
next(i) ==
    LET n == (i + 1) % 256
    IN  IF n >= CONSENSUS_MAX_ITER
        THEN [iter |-> i, ret |-> [ok |-> FALSE, value |-> 0]]
        ELSE [iter |-> n, ret |-> [ok |-> TRUE, value |-> n]]

NoRet == [ok |-> TRUE, value |-> 0]

IdleTask ==
    [pc |-> "idle", candidate |-> CHOOSE c \in Candidates : c.hash = ZeroHash,
     step |-> 0, already_verified |-> FALSE, vst |-> "none"]

\* the state before any task is spawned
ConsIdle ==
    /\ iter = 0
    /\ iterRet = NoRet
    /\ verified_hash = ZeroHash
    /\ executor = "free"
    /\ task = [t \in Tasks |-> IdleTask]
    /\ outbound = <<>>
    /\ inbound = <<>>

\* the iteration driver calls next() after an iteration ended without quorum
IterNext ==
    /\ iter' = next(iter).iter
    /\ iterRet' = next(iter).ret
    /\ UNCHANGED <<verified_hash, executor, task, outbound, inbound>>

\* spawn_cast_vote: join_set.spawn of the task for the step of the current
\* iteration
SpawnCastVote(t, candidate) ==
    /\ task[t].pc = "idle"
    /\ task' = [task EXCEPT ![t] =
                  [IdleTask EXCEPT !.pc = "read_verified",
                                   !.candidate = candidate,
                                   !.step = step_from_name(iter,
                                               IF t = "validation" THEN "Validation"
                                               ELSE "Ratification")]]
    /\ UNCHANGED <<iter, iterRet, verified_hash, executor, outbound, inbound>>

\* mutant of ReadVerified: any verified hash counts as the candidate's
ReadVerified_any_verified(t) ==
    /\ task[t].pc = "read_verified"
    /\ LET hash == task[t].candidate.hash
           already == verified_hash # ZeroHash
       IN  task' = [task EXCEPT ![t].already_verified = already,
                                ![t].pc = IF ~already /\ hash # ZeroHash
                                          THEN "decode" ELSE "store"]
    /\ UNCHANGED <<iter, iterRet, verified_hash, executor, outbound, inbound>>

\* let already_verified = *verified_hash.lock().await == hash;
ReadVerified(t) ==
    /\ task[t].pc = "read_verified"
    /\ LET hash == task[t].candidate.hash
           already == verified_hash = hash
       IN  task' = [task EXCEPT ![t].already_verified = already,
                                ![t].pc = IF ~already /\ hash # ZeroHash
                                          THEN "decode" ELSE "store"]
    /\ UNCHANGED <<iter, iterRet, verified_hash, executor, outbound, inbound>>

\* PublicKey::from_slice(generator_bls_pubkey): Err returns from the task
DecodeGenerator(t, decoded) ==
    /\ task[t].pc = "decode"
    /\ task' = [task EXCEPT ![t].pc = IF decoded THEN "lock_executor" ELSE "done",
                            ![t].vst = IF decoded THEN @ ELSE "no_generator"]
    /\ UNCHANGED <<iter, iterRet, verified_hash, executor, outbound, inbound>>

\* executor.lock().await, then verify_state_transition is called
LockExecutor(t) ==
    /\ task[t].pc = "lock_executor"
    /\ executor = "free"
    /\ executor' = t
    /\ task' = [task EXCEPT ![t].pc = "vst"]
    /\ UNCHANGED <<iter, iterRet, verified_hash, outbound, inbound>>

\* the outcome of the match on the VST result
VstOutcome(candidate, out) ==
    IF ~out.ok THEN "vst_error"
    ELSE IF out.event_hash # candidate.event_hash THEN "event_hash_mismatch"
    ELSE IF out.state_root # candidate.state_hash THEN "state_hash_mismatch"
    ELSE "verified"

\* verify_state_transition returns; the guard of the executor is dropped; a
\* mismatch or an error returns from the task
VstReturn(t, out) ==
    /\ task[t].pc = "vst"
    /\ executor' = "free"
    /\ LET o == VstOutcome(task[t].candidate, out)
       IN  task' = [task EXCEPT ![t].vst = o,
                                ![t].pc = IF o = "verified" THEN "store" ELSE "done"]
    /\ UNCHANGED <<iter, iterRet, verified_hash, outbound, inbound>>

\* *verified_hash.lock().await = hash
StoreVerified(t) ==
    /\ task[t].pc = "store"
    /\ verified_hash' = task[t].candidate.hash
    /\ task' = [task EXCEPT ![t].pc = "publish"]
    /\ UNCHANGED <<iter, iterRet, executor, outbound, inbound>>

\* the vote message of a task: message::Header {pubkey_bls, round, step,
\* block_hash, topic}; a zero block_hash is the NIL vote
VoteMsg(t) ==
    [from |-> t, round |-> ru.round, step |-> task[t].step,
     block_hash |-> task[t].candidate.hash]

\* outbound.send(msg.clone()).await
Publish(t) ==
    /\ task[t].pc = "publish"
    /\ outbound' = Append(outbound, VoteMsg(t))
    /\ task' = [task EXCEPT ![t].pc = "register"]
    /\ UNCHANGED <<iter, iterRet, verified_hash, executor, inbound>>

\* inbound.send(msg).await
Register(t) ==
    /\ task[t].pc = "register"
    /\ inbound' = Append(inbound, VoteMsg(t))
    /\ task' = [task EXCEPT ![t].pc = "done"]
    /\ UNCHANGED <<iter, iterRet, verified_hash, executor, outbound>>

-----------------------------------------------------------------------------
(***************************************************************************)
(* Chain FSM: node/src/chain/fsm.rs                                        *)
(*                                                                         *)
(* The handlers are written as operators from the node state n and the     *)
(* inputs to the SET of possible results: the outcomes of the acceptor,    *)
(* of the revert, of the timers and of the stall detector are chosen by    *)
(* the environment.  The node state is the record                          *)
(*   [acc, curr, blacklisted_blocks, attestations_cache, stalled_sm,       *)
(*    effects].                                                            *)
(* Time is counted in seconds: a handler is called some seconds after the  *)
(* previous one, and every timer is kept as the time since it was set.     *)
(***************************************************************************)

\* EXPIRY_TIMEOUT_MILLIS
EXPIRY_TIMEOUT_MILLIS == 5000
\* PresyncInfo::DEFAULT_TIMEOUT, in seconds
DEFAULT_TIMEOUT == 10
\* DEFAULT_ATT_CACHE_EXPIRY, in seconds
DEFAULT_ATT_CACHE_EXPIRY == 60
\* DEFAULT_HOPS_LIMIT
DEFAULT_HOPS_LIMIT == 16

\* seconds between two calls of a handler
Elapsed == {0, 5, 60}

\* block headers seen by the node; state_hash is the state after the block.
\* m1 and m2 carry a height that is not their previous block's height + 1,
\* u2 has a previous block nobody knows.
BlockSet ==
    {[hash |-> "g",  height |-> 0, prev_block_hash |-> "-",  iteration |-> 0, state_hash |-> "sg"],
     [hash |-> "a1", height |-> 1, prev_block_hash |-> "g",  iteration |-> 1, state_hash |-> "sa1"],
     [hash |-> "b1", height |-> 1, prev_block_hash |-> "g",  iteration |-> 0, state_hash |-> "sb1"],
     [hash |-> "m1", height |-> 1, prev_block_hash |-> "a1", iteration |-> 0, state_hash |-> "sm1"],
     [hash |-> "a2", height |-> 2, prev_block_hash |-> "a1", iteration |-> 1, state_hash |-> "sa2"],
     [hash |-> "b2", height |-> 2, prev_block_hash |-> "a1", iteration |-> 0, state_hash |-> "sb2"],
     [hash |-> "m2", height |-> 2, prev_block_hash |-> "g",  iteration |-> 0, state_hash |-> "sm2"],
     [hash |-> "u2", height |-> 2, prev_block_hash |-> "zz", iteration |-> 0, state_hash |-> "su2"],
     [hash |-> "a3", height |-> 3, prev_block_hash |-> "a2", iteration |-> 0, state_hash |-> "sa3"],
     [hash |-> "a4", height |-> 4, prev_block_hash |-> "a3", iteration |-> 0, state_hash |-> "sa4"],
     [hash |-> "a5", height |-> 5, prev_block_hash |-> "a4", iteration |-> 1, state_hash |-> "sa5"],
     [hash |-> "b5", height |-> 5, prev_block_hash |-> "a4", iteration |-> 0, state_hash |-> "sb5"],
     [hash |-> "a6", height |-> 6, prev_block_hash |-> "a5", iteration |-> 0, state_hash |-> "sa6"],
     [hash |-> "a7", height |-> 7, prev_block_hash |-> "a6", iteration |-> 0, state_hash |-> "sa7"]}

HeaderOf(hash) == CHOOSE b \in BlockSet : b.hash = hash

\* blocks that arrive in block events
RemoteBlocks == {b \in BlockSet : b.height \in 1 .. 4}

\* Metadata.src_addr of an event; NoMetadata is Option::None
Peers == {"p1", "p2"}
NoMetadata == "none"
Metadatas == Peers \cup {NoMetadata}

\* SocketAddr 127.0.0.1:8000 of OutOfSyncImpl::new
DefaultPeer == "127.0.0.1:8000"

\* ---- ledger reads (Acceptor and its db; the ledger is the chain of hashes
\* from genesis to the tip) ----
tip_header(n) == HeaderOf(n.acc.chain[Len(n.acc.chain)])
get_curr_height(n) == tip_header(n).height
get_curr_hash(n) == tip_header(n).hash
get_block_exists(n, hash) == \E i \in 1 .. Len(n.acc.chain) : n.acc.chain[i] = hash
fetch_block_header(n, hash) ==
    IF get_block_exists(n, hash) THEN HeaderOf(hash) ELSE None
fetch_block_by_height(n, height) ==
    IF height + 1 <= Len(n.acc.chain) THEN HeaderOf(n.acc.chain[height + 1]) ELSE None

\* Acceptor::try_accept_block: it may fail; it succeeds only for a block that
\* extends the tip; a success may report finalization
try_accept_block(n, blk) ==
    {[n |-> n, ok |-> FALSE, finalized |-> FALSE]}
    \cup IF /\ blk.prev_block_hash = get_curr_hash(n)
            /\ blk.height = get_curr_height(n) + 1
         THEN {[n |-> [n EXCEPT !.acc.chain = Append(@, blk.hash),
                                !.acc.final = IF fin THEN blk.height ELSE @],
                 ok |-> TRUE, finalized |-> fin] : fin \in BOOLEAN}
         ELSE {}

\* Acceptor::try_revert(RevertTarget::Commit(state_hash)), also behind
\* fallback::WithContext::try_revert: it may fail; on success the tip is the
\* block with that state; finalized blocks are never reverted
try_revert(n, state_hash) ==
    {[n |-> n, ok |-> FALSE]}
    \cup {[n |-> [n EXCEPT !.acc.chain = SubSeq(@, 1, i)], ok |-> TRUE] :
            i \in {j \in 1 .. Len(n.acc.chain) :
                     /\ HeaderOf(n.acc.chain[j]).state_hash = state_hash
                     /\ j - 1 >= n.acc.final}}

\* ---- stall detector (stall_chain_fsm) ----
RunningAt(tip) == [state |-> "Running", tip |-> tip, local |-> "-", remote |-> "-"]

\* StalledChainFSM::on_block_received: the states it can be in afterwards
on_block_received(n, blk) ==
    LET sm == n.stalled_sm
        prev == fetch_block_header(n, blk.prev_block_hash)
    IN  IF sm.tip # get_curr_hash(n) THEN {RunningAt(get_curr_hash(n))}
        ELSE IF sm.state = "Running" THEN {sm, [sm EXCEPT !.state = "Stalled"]}
        ELSE IF sm.state = "Stalled"
        THEN {sm} \cup
             IF /\ ~get_block_exists(n, blk.hash)
                /\ prev # None
                /\ fetch_block_by_height(n, prev.height + 1) # None
             THEN {[sm EXCEPT !.state = "StalledOnFork",
                              !.local = fetch_block_by_height(n, prev.height + 1).hash,
                              !.remote = blk.hash]}
             ELSE {}
        ELSE {sm}

\* ---- what a handler did, for the properties ----
Snap(n) ==
    [chain |-> n.acc.chain, final |-> n.acc.final,
     blacklist |-> n.blacklisted_blocks, state |-> n.curr.state]

\* branch taken, outcome of the revert ("none" when none was attempted), the
\* local block the fallback replaces and the remote block that replaces it,
\* the state when the branch was entered, the tip height after a successful
\* revert, the blocks handed to the acceptor with the tip height at the
\* call, and the state when the part returned
NoLog ==
    [branch |-> "none", revert |-> "none", local |-> "-", remote |-> "-",
     pre |-> None, reverted |-> -1, accepts |-> <<>>, after |-> None]

AcceptLog(n, blk, a) ==
    [hash |-> blk.hash, ok |-> a.ok, finalized |-> a.finalized,
     tip_height |-> get_curr_height(n)]

\* the result of a state's handler: ret is what it returns inside Ok
Res(n, ret, err, log) ==
    [n |-> n, ret |-> ret, err |-> err, log |-> [log EXCEPT !.after = Snap(n)]]

\* ---- calls out of the FSM: network sends and Acceptor::restart_consensus ----
NoHash == "-"

\* Network::send_to_peer with the GetResource of request_block_by_height
RequestBlockByHeight(height, peer_addr) ==
    [call |-> "send_to_peer", msg |-> "GetResource", heights |-> {height},
     hash |-> NoHash, peer |-> peer_addr, hops |-> 1]

\* Network::send_to_peer with GetBlocks::new(locator)
GetBlocks(locator, peer_addr) ==
    [call |-> "send_to_peer", msg |-> "GetBlocks", heights |-> {},
     hash |-> locator, peer |-> peer_addr, hops |-> 0]

\* Network::flood_request(inv, None, hops) for an inventory of block heights
FloodRequestHeights(heights, hops) ==
    [call |-> "flood_request", msg |-> "Inv", heights |-> heights,
     hash |-> NoHash, peer |-> "-", hops |-> hops]

\* flood_request: Network::flood_request(inv, None, DEFAULT_HOPS_LIMIT) for a
\* candidate hash
flood_request(hash) ==
    [call |-> "flood_request", msg |-> "Inv", heights |-> {},
     hash |-> hash, peer |-> "-", hops |-> DEFAULT_HOPS_LIMIT]

\* Acceptor::restart_consensus
RestartConsensus ==
    [call |-> "restart_consensus", msg |-> "-", heights |-> {},
     hash |-> NoHash, peer |-> "-", hops |-> 0]

\* the node after it made the call e
Call(n, e) == [n EXCEPT !.effects = Append(@, e)]

\* ---- InSyncImpl ----
NoPresync == None

\* PresyncInfo::new: age is the time since it was made, it expires at
\* DEFAULT_TIMEOUT
PresyncInfoNew(peer_addr, target_blk, start_height) ==
    [peer_addr |-> peer_addr, target_blk |-> target_blk.hash,
     start_height |-> start_height, age |-> 0]

\* InSyncImpl::new
InSyncNew ==
    [state |-> "InSync", presync |-> NoPresync, range |-> <<0, 0>>, pool |-> {},
     peer_addr |-> DefaultPeer, attempts |-> 0, since |-> 0]

\* InSyncImpl::on_block_event, remote_height < local_header.height: the view
\* that looks for the local block l_b to replace
FallbackCandidate(n, blk) ==
    LET prev_header == fetch_block_header(n, blk.prev_block_hash)
        l_b == IF prev_header = None THEN None
               ELSE fetch_block_by_height(n, prev_header.height + 1)
    IN  IF prev_header # None /\ l_b # None /\ blk.iteration < l_b.iteration
        THEN [local_header |-> l_b, state_hash |-> prev_header.state_hash]
        ELSE None

\* mutant of InSync_lower: a block of the ledger is not told from a new one
InSync_lower_no_exists_check(n, blk) ==
    IF blk.height <= n.acc.final
    THEN {Res(n, None, FALSE, [NoLog EXCEPT !.branch = "lower_final"])}
    ELSE LET prev_header == fetch_block_header(n, blk.prev_block_hash)
             log == [NoLog EXCEPT !.branch = "lower", !.pre = Snap(n),
                                  !.remote = blk.hash]
         IN  IF prev_header = None THEN {Res(n, None, FALSE, log)}
             ELSE UNION {
                 LET rlog == [log EXCEPT !.revert = IF rv.ok THEN "ok" ELSE "err",
                                         !.reverted = IF rv.ok THEN get_curr_height(rv.n)
                                                      ELSE -1]
                 IN  IF ~rv.ok THEN {Res(n, None, FALSE, rlog)}
                     ELSE IF blk.height = get_curr_height(rv.n) + 1
                     THEN {Res(a.n, None, ~a.ok,
                               [rlog EXCEPT !.accepts = <<AcceptLog(rv.n, blk, a)>>]) :
                             a \in try_accept_block(rv.n, blk)}
                     ELSE {Res(rv.n, None, FALSE, rlog)}
                 : rv \in try_revert(n, prev_header.state_hash)}

\* InSyncImpl::on_block_event, remote_height < local_header.height
InSync_lower(n, blk) ==
    IF get_block_exists(n, blk.hash)
    THEN {Res(n, None, FALSE, [NoLog EXCEPT !.branch = "lower_exists"])}
    ELSE IF blk.height <= n.acc.final
    THEN {Res(n, None, FALSE, [NoLog EXCEPT !.branch = "lower_final"])}
    ELSE LET result == FallbackCandidate(n, blk)
             log == [NoLog EXCEPT !.branch = "lower", !.pre = Snap(n),
                                  !.remote = blk.hash]
         IN  IF result = None THEN {Res(n, None, FALSE, log)}
             ELSE UNION {
                 LET rlog == [log EXCEPT !.revert = IF rv.ok THEN "ok" ELSE "err",
                                         !.local = result.local_header.hash,
                                         !.reverted = IF rv.ok THEN get_curr_height(rv.n)
                                                      ELSE -1]
                 IN  IF ~rv.ok THEN {Res(n, None, FALSE, rlog)}
                     ELSE IF blk.height = get_curr_height(rv.n) + 1
                     THEN {Res(a.n, None, ~a.ok,
                               [rlog EXCEPT !.accepts = <<AcceptLog(rv.n, blk, a)>>]) :
                             a \in try_accept_block(rv.n, blk)}
                     ELSE {Res(rv.n, None, FALSE, rlog)}
                 : rv \in try_revert(n, result.state_hash)}

\* mutant of InSync_equal: without peer metadata the FSM still leaves InSync,
\* towards the default peer
InSync_equal_always_out(n, blk, md) ==
    LET local_header == tip_header(n)
        prev == fetch_block_header(n, blk.prev_block_hash)
        log == [NoLog EXCEPT !.branch = "equal", !.pre = Snap(n),
                             !.local = local_header.hash, !.remote = blk.hash]
    IN  IF blk.hash = local_header.hash
        THEN {Res(n, None, FALSE, [NoLog EXCEPT !.branch = "duplicate"])}
        ELSE IF prev = None
        THEN {Res(n, None, TRUE, [log EXCEPT !.branch = "equal_no_prev"])}
        ELSE UNION {
            IF ~rv.ok THEN {Res(n, None, FALSE, [log EXCEPT !.revert = "err"])}
            ELSE LET b == [rv.n EXCEPT !.blacklisted_blocks = @ \cup {local_header.hash}]
                     oklog == [log EXCEPT !.revert = "ok",
                                          !.reverted = get_curr_height(rv.n)]
                 IN  IF blk.height = get_curr_height(b) + 1
                     THEN {Res(a.n, None, ~a.ok,
                               [oklog EXCEPT !.accepts = <<AcceptLog(b, blk, a)>>]) :
                             a \in try_accept_block(b, blk)}
                     ELSE {Res(b, [blk |-> blk.hash,
                                   peer |-> IF md # NoMetadata THEN md ELSE DefaultPeer],
                               FALSE, oklog)}
            : rv \in try_revert(n, prev.state_hash)}

\* InSyncImpl::on_block_event, remote_height == local_header.height
InSync_equal(n, blk, md) ==
    LET local_header == tip_header(n)
        prev == fetch_block_header(n, blk.prev_block_hash)
        log == [NoLog EXCEPT !.branch = "equal", !.pre = Snap(n),
                             !.local = local_header.hash, !.remote = blk.hash]
    IN  IF blk.hash = local_header.hash
        THEN {Res(n, None, FALSE, [NoLog EXCEPT !.branch = "duplicate"])}
        ELSE IF prev = None
        THEN {Res(n, None, TRUE, [log EXCEPT !.branch = "equal_no_prev"])}
        ELSE UNION {
            IF ~rv.ok THEN {Res(n, None, FALSE, [log EXCEPT !.revert = "err"])}
            ELSE LET b == [rv.n EXCEPT !.blacklisted_blocks = @ \cup {local_header.hash}]
                     oklog == [log EXCEPT !.revert = "ok",
                                          !.reverted = get_curr_height(rv.n)]
                 IN  IF blk.height = get_curr_height(b) + 1
                     THEN {Res(a.n, None, ~a.ok,
                               [oklog EXCEPT !.accepts = <<AcceptLog(b, blk, a)>>]) :
                             a \in try_accept_block(b, blk)}
                     ELSE IF md # NoMetadata
                     THEN {Res(b, [blk |-> blk.hash, peer |-> md], FALSE, oklog)}
                     ELSE {Res(b, None, FALSE, oklog)}
            : rv \in try_revert(n, prev.state_hash)}

\* mutant of InSync_next: the sender of the block is not compared with the
\* presync peer
InSync_next_any_peer(n, blk, md) ==
    {IF ~a.ok
     THEN Res(a.n, None, TRUE,
              [NoLog EXCEPT !.branch = "next", !.accepts = <<AcceptLog(n, blk, a)>>])
     ELSE LET c == IF a.finalized THEN [a.n EXCEPT !.blacklisted_blocks = {}] ELSE a.n
              presync == c.curr.presync
              log == [NoLog EXCEPT !.branch = "next",
                                   !.accepts = <<AcceptLog(n, blk, a)>>]
          IN  IF /\ md # NoMetadata
                 /\ presync # NoPresync
                 /\ blk.height = presync.start_height + 1
              THEN Res([c EXCEPT !.curr.presync = NoPresync],
                       [blk |-> presync.target_blk, peer |-> presync.peer_addr],
                       FALSE, log)
              ELSE Res(c, None, FALSE, log)
     : a \in try_accept_block(n, blk)}

\* InSyncImpl::on_block_event, remote_height == local_header.height + 1
InSync_next(n, blk, md) ==
    {IF ~a.ok
     THEN Res(a.n, None, TRUE,
              [NoLog EXCEPT !.branch = "next", !.accepts = <<AcceptLog(n, blk, a)>>])
     ELSE LET c == IF a.finalized THEN [a.n EXCEPT !.blacklisted_blocks = {}] ELSE a.n
              presync == c.curr.presync
              log == [NoLog EXCEPT !.branch = "next",
                                   !.accepts = <<AcceptLog(n, blk, a)>>]
          IN  IF /\ md # NoMetadata
                 /\ presync # NoPresync
                 /\ md = presync.peer_addr
                 /\ blk.height = presync.start_height + 1
              THEN Res([c EXCEPT !.curr.presync = NoPresync],
                       [blk |-> presync.target_blk, peer |-> presync.peer_addr],
                       FALSE, log)
              ELSE Res(c, None, FALSE, log)
     : a \in try_accept_block(n, blk)}

\* mutant of InSync_future: a presync record that exists is replaced
InSync_future_overwrite(n, blk, md) ==
    LET log == [NoLog EXCEPT !.branch = "future"]
        local_header == tip_header(n)
        p == [n EXCEPT !.curr.presync = PresyncInfoNew(md, blk, local_header.height)]
    IN  IF md # NoMetadata
        THEN {Res(Call(p, RequestBlockByHeight(local_header.height + 1, md)),
                  None, FALSE, log)}
        ELSE {Res(n, None, FALSE, log)}

\* InSyncImpl::on_block_event, remote_height > local_header.height + 1
InSync_future(n, blk, md) ==
    LET log == [NoLog EXCEPT !.branch = "future"]
        local_header == tip_header(n)
        p == IF n.curr.presync = NoPresync
             THEN [n EXCEPT !.curr.presync = PresyncInfoNew(md, blk, local_header.height)]
             ELSE n
    IN  IF md # NoMetadata
        THEN {Res(Call(p, RequestBlockByHeight(local_header.height + 1, md)),
                  None, FALSE, log)}
        ELSE {Res(n, None, FALSE, log)}

\* InSyncImpl::on_block_event
InSync_on_block_event(n, blk, md) ==
    LET local_header == tip_header(n)
    IN  IF blk.height < local_header.height THEN InSync_lower(n, blk)
        ELSE IF blk.height = local_header.height THEN InSync_equal(n, blk, md)
        ELSE IF blk.height = local_header.height + 1 THEN InSync_next(n, blk, md)
        ELSE InSync_future(n, blk, md)

\* mutant of InSync_on_entering: the block is handed over whatever its height
InSync_on_entering_any_height(n, blk) ==
    {[n |-> a.n, err |-> ~a.ok, accepts |-> <<AcceptLog(n, blk, a)>>] :
       a \in try_accept_block(n, blk)}

\* InSyncImpl::on_entering: [n, err, accepts]
InSync_on_entering(n, blk) ==
    IF blk.height = get_curr_height(n) + 1
    THEN {[n |-> a.n, err |-> ~a.ok, accepts |-> <<AcceptLog(n, blk, a)>>] :
            a \in try_accept_block(n, blk)}
    ELSE {[n |-> n, err |-> FALSE, accepts |-> <<>>]}

\* mutant of InSync_on_heartbeat: the record is dropped only after its expiry
InSync_on_heartbeat_after_expiry(n) ==
    IF n.curr.presync # NoPresync /\ n.curr.presync.age > DEFAULT_TIMEOUT
    THEN {[n EXCEPT !.curr.presync = NoPresync]}
    ELSE {n}

\* InSyncImpl::on_heartbeat: the presync record is dropped once expired
InSync_on_heartbeat(n) ==
    IF n.curr.presync # NoPresync /\ n.curr.presync.age >= DEFAULT_TIMEOUT
    THEN {[n EXCEPT !.curr.presync = NoPresync]}
    ELSE {n}

\* ---- OutOfSyncImpl ----

\* OutOfSyncImpl::new
OutOfSyncNew ==
    [state |-> "OutOfSync", presync |-> NoPresync, range |-> <<0, 0>>, pool |-> {},
     peer_addr |-> DefaultPeer, attempts |-> 3, since |-> 0]

Min(a, b) == IF a <= b THEN a ELSE b

\* HashMap<u64, Block>::insert with the height as key
pool_insert(pool, blk) ==
    {h \in pool : HeaderOf(h).height # blk.height} \cup {blk.hash}

\* HashMap<u64, Block>::get
pool_get(pool, height) ==
    IF \E h \in pool : HeaderOf(h).height = height
    THEN HeaderOf(CHOOSE h \in pool : HeaderOf(h).height = height)
    ELSE None

\* mutant of OutOfSync_on_entering: the window always spans MAX_BLOCKS_TO_REQUEST
OutOfSync_on_entering_no_min(n, blk, peer_addr) ==
    LET curr_height == get_curr_height(n)
        locator == get_curr_hash(n)
    IN  [Call(n, GetBlocks(locator, peer_addr)) EXCEPT
            !.curr.range =
                <<curr_height, curr_height + MAX_BLOCKS_TO_REQUEST>>,
            !.curr.pool = {blk.hash},
            !.curr.peer_addr = peer_addr]

\* OutOfSyncImpl::on_entering
OutOfSync_on_entering(n, blk, peer_addr) ==
    LET curr_height == get_curr_height(n)
        locator == get_curr_hash(n)
    IN  [Call(n, GetBlocks(locator, peer_addr)) EXCEPT
            !.curr.range =
                <<curr_height, Min(curr_height + MAX_BLOCKS_TO_REQUEST, blk.height)>>,
            !.curr.pool = {blk.hash},
            !.curr.peer_addr = peer_addr]

\* start_time + EXPIRY_TIMEOUT_MILLIS <= SystemTime::now()
Expired(n) == n.curr.since * 1000 >= EXPIRY_TIMEOUT_MILLIS

RECURSIVE DrainPool(_, _, _)
\* OutOfSyncImpl::on_block_event, the loop over the pooled heights:
\* [n, err, accepts]
DrainPool(n, height, accepts) ==
    LET b == pool_get(n.curr.pool, height)
    IN  IF height > n.curr.range[2] \/ b = None
        THEN {[n |-> n, err |-> FALSE, accepts |-> accepts]}
        ELSE UNION {
            IF ~a.ok
            THEN {[n |-> a.n, err |-> TRUE, accepts |-> Append(accepts, AcceptLog(n, b, a))]}
            ELSE DrainPool(a.n, height + 1, Append(accepts, AcceptLog(n, b, a)))
            : a \in try_accept_block(n, b)}

\* mutant of OutOfSync_in_time: the tip has to pass the end of the window
OutOfSync_in_time_strict(n, blk, md) ==
    LET h == blk.height
    IN  IF h <= get_curr_height(n)
        THEN {Res(n, FALSE, FALSE, [NoLog EXCEPT !.branch = "oos_old"])}
        ELSE IF h = get_curr_height(n) + 1
        THEN UNION {
            IF ~a.ok
            THEN {Res(a.n, FALSE, TRUE,
                      [NoLog EXCEPT !.branch = "oos_next",
                                    !.accepts = <<AcceptLog(n, blk, a)>>])}
            ELSE {LET reached == ~d.err /\ get_curr_height(d.n) > n.curr.range[2]
                  IN  Res(IF reached THEN Call(d.n, RestartConsensus) ELSE d.n,
                          reached, d.err,
                          [NoLog EXCEPT !.branch = "oos_next", !.accepts = d.accepts])
                  : d \in DrainPool(IF md # NoMetadata /\ md = n.curr.peer_addr
                                    THEN [a.n EXCEPT !.curr.since = 0] ELSE a.n,
                                    h + 1, <<AcceptLog(n, blk, a)>>)}
            : a \in try_accept_block(n, blk)}
        ELSE IF Cardinality(n.curr.pool) < MAX_BLOCKS_TO_REQUEST
        THEN {Res([n EXCEPT !.curr.pool = pool_insert(@, blk)], FALSE, FALSE,
                  [NoLog EXCEPT !.branch = "oos_pool"])}
        ELSE {Res(n, FALSE, FALSE, [NoLog EXCEPT !.branch = "oos_pool"])}

\* mutant of OutOfSync_in_time: a full pool takes one more block
OutOfSync_in_time_pool_le(n, blk, md) ==
    LET h == blk.height
    IN  IF h <= get_curr_height(n)
        THEN {Res(n, FALSE, FALSE, [NoLog EXCEPT !.branch = "oos_old"])}
        ELSE IF h = get_curr_height(n) + 1
        THEN UNION {
            IF ~a.ok
            THEN {Res(a.n, FALSE, TRUE,
                      [NoLog EXCEPT !.branch = "oos_next",
                                    !.accepts = <<AcceptLog(n, blk, a)>>])}
            ELSE {LET reached == ~d.err /\ get_curr_height(d.n) >= n.curr.range[2]
                  IN  Res(IF reached THEN Call(d.n, RestartConsensus) ELSE d.n,
                          reached, d.err,
                          [NoLog EXCEPT !.branch = "oos_next", !.accepts = d.accepts])
                  : d \in DrainPool(IF md # NoMetadata /\ md = n.curr.peer_addr
                                    THEN [a.n EXCEPT !.curr.since = 0] ELSE a.n,
                                    h + 1, <<AcceptLog(n, blk, a)>>)}
            : a \in try_accept_block(n, blk)}
        ELSE IF Cardinality(n.curr.pool) <= MAX_BLOCKS_TO_REQUEST
        THEN {Res([n EXCEPT !.curr.pool = pool_insert(@, blk)], FALSE, FALSE,
                  [NoLog EXCEPT !.branch = "oos_pool"])}
        ELSE {Res(n, FALSE, FALSE, [NoLog EXCEPT !.branch = "oos_pool"])}

\* OutOfSyncImpl::on_block_event when the sync timer has not expired
OutOfSync_in_time(n, blk, md) ==
    LET h == blk.height
    IN  IF h <= get_curr_height(n)
        THEN {Res(n, FALSE, FALSE, [NoLog EXCEPT !.branch = "oos_old"])}
        ELSE IF h = get_curr_height(n) + 1
        THEN UNION {
            IF ~a.ok
            THEN {Res(a.n, FALSE, TRUE,
                      [NoLog EXCEPT !.branch = "oos_next",
                                    !.accepts = <<AcceptLog(n, blk, a)>>])}
            ELSE {LET reached == ~d.err /\ get_curr_height(d.n) >= n.curr.range[2]
                  IN  Res(IF reached THEN Call(d.n, RestartConsensus) ELSE d.n,
                          reached, d.err,
                          [NoLog EXCEPT !.branch = "oos_next", !.accepts = d.accepts])
                  : d \in DrainPool(IF md # NoMetadata /\ md = n.curr.peer_addr
                                    THEN [a.n EXCEPT !.curr.since = 0] ELSE a.n,
                                    h + 1, <<AcceptLog(n, blk, a)>>)}
            : a \in try_accept_block(n, blk)}
        ELSE IF Cardinality(n.curr.pool) < MAX_BLOCKS_TO_REQUEST
        THEN {Res([n EXCEPT !.curr.pool = pool_insert(@, blk)], FALSE, FALSE,
                  [NoLog EXCEPT !.branch = "oos_pool"])}
        ELSE {Res(n, FALSE, FALSE, [NoLog EXCEPT !.branch = "oos_pool"])}

\* OutOfSyncImpl::on_block_event: true asks for the transition to InSync
OutOfSync_on_block_event(n, blk, md) ==
    IF Expired(n)
    THEN {Res(Call(n, RestartConsensus), TRUE, FALSE,
              [NoLog EXCEPT !.branch = "oos_expired"])}
    ELSE OutOfSync_in_time(n, blk, md)

\* mutant of MissingHeights: the heights end with the window
MissingHeights_window(n) ==
    {height \in n.curr.range[1] + 1 .. n.curr.range[2] :
        pool_get(n.curr.pool, height) = None}

\* OutOfSyncImpl::on_heartbeat, the heights asked for again
MissingHeights(n) ==
    {height \in n.curr.range[1] + 1 .. n.curr.range[2] + 1 :
        pool_get(n.curr.pool, height) = None}

\* OutOfSyncImpl::on_heartbeat: [n, ret]
OutOfSync_on_heartbeat(n) ==
    IF ~Expired(n) THEN {[n |-> n, ret |-> FALSE]}
    ELSE IF n.curr.attempts = 0
    THEN {[n |-> Call(n, RestartConsensus), ret |-> TRUE]}
    ELSE LET inv == MissingHeights(n)
             r == IF inv # {} THEN Call(n, FloodRequestHeights(inv, 8)) ELSE n
         IN  {[n |-> [r EXCEPT !.curr.since = 0, !.curr.attempts = @ - 1],
               ret |-> FALSE]}

\* ---- SimpleFSM ----

\* attestations_cache: HashMap from a block hash to (attestation, expiry),
\* kept as the set of [hash, age], age the time since the entry was inserted
cache_contains_key(cache, hash) == \E e \in cache : e.hash = hash
cache_insert(cache, hash) == {e \in cache : e.hash # hash} \cup {[hash |-> hash, age |-> 0]}
cache_remove(cache, hash) == {e \in cache : e.hash # hash}
\* retain(|_, (_, expiry)| *expiry > now)
cache_retain(cache) == {e \in cache : e.age < DEFAULT_ATT_CACHE_EXPIRY}

\* mutant of attach_att_if_needed: the expired entries are dropped before the
\* cache is looked at
attach_att_if_needed_retain_first(n, blk, att) ==
    {[n |-> [n EXCEPT !.attestations_cache = cache_remove(cache_retain(@), blk.hash)],
      some |-> att \/ cache_contains_key(cache_retain(n.attestations_cache), blk.hash)]}

\* SimpleFSM::attach_att_if_needed: att tells whether the block carries an
\* attestation; the entries of the cache that have expired are dropped
attach_att_if_needed(n, blk, att) ==
    {[n |-> [n EXCEPT !.attestations_cache = cache_remove(cache_retain(@), blk.hash)],
      some |-> att \/ cache_contains_key(n.attestations_cache, blk.hash)]}

\* SimpleFSM::on_block_event, the match on self.curr: [n, err, log]
FsmPart(n, blk, md) ==
    IF n.curr.state = "InSync"
    THEN {LET m == IF r.err \/ r.ret = None THEN r.n
                   ELSE OutOfSync_on_entering([r.n EXCEPT !.curr = OutOfSyncNew],
                                              HeaderOf(r.ret.blk), r.ret.peer)
          IN  [n |-> m, err |-> r.err, log |-> [r.log EXCEPT !.after = Snap(m)]]
          : r \in InSync_on_block_event(n, blk, md)}
    ELSE UNION {
        IF r.err \/ ~r.ret THEN {[n |-> r.n, err |-> r.err, log |-> r.log]}
        ELSE {LET m == IF e.err THEN e.n ELSE [e.n EXCEPT !.curr = InSyncNew]
              IN  [n |-> m, err |-> e.err,
                   log |-> [r.log EXCEPT !.accepts = @ \o e.accepts, !.after = Snap(m)]]
              : e \in InSync_on_entering([r.n EXCEPT !.curr.pool = {}], blk)}
        : r \in OutOfSync_on_block_event(n, blk, md)}

\* mutant of on_stalled_on_fork: the local hash is blacklisted before the revert
on_stalled_on_fork_blacklist_first(n) ==
    LET local == HeaderOf(n.stalled_sm.local)
        remote == HeaderOf(n.stalled_sm.remote)
        prev_blk == HeaderOf(local.prev_block_hash)
        log == [NoLog EXCEPT !.branch = "stalled_on_fork", !.pre = Snap(n),
                             !.local = local.hash, !.remote = remote.hash]
        b == [n EXCEPT !.blacklisted_blocks = @ \cup {local.hash}]
    IN  UNION {
            IF ~rv.ok
            THEN {[n |-> b, early |-> TRUE, err |-> FALSE,
                   log |-> [log EXCEPT !.revert = "err", !.after = Snap(b)]]}
            ELSE {LET m == IF ~a.ok THEN a.n
                           ELSE [a.n EXCEPT !.stalled_sm = RunningAt(remote.hash)]
                  IN  [n |-> m, early |-> FALSE, err |-> ~a.ok,
                       log |-> [log EXCEPT !.revert = "ok", !.after = Snap(m),
                                           !.reverted = get_curr_height(rv.n),
                                           !.accepts = <<AcceptLog(rv.n, remote, a)>>]]
                  : a \in try_accept_block(rv.n, remote)}
            : rv \in try_revert(b, prev_blk.state_hash)}

\* mutant of on_stalled_on_fork: the local hash is blacklisted whether or not
\* the remote block is accepted
on_stalled_on_fork_blacklist_before_accept(n) ==
    LET local_hash_at_fork == n.stalled_sm.local
        remote == HeaderOf(n.stalled_sm.remote)
        local_blk == fetch_block_header(n, local_hash_at_fork)
        prev_blk == IF local_blk = None THEN None
                    ELSE fetch_block_header(n, local_blk.prev_block_hash)
        log == [NoLog EXCEPT !.branch = "stalled_on_fork", !.pre = Snap(n),
                             !.local = local_hash_at_fork, !.remote = remote.hash]
    IN  IF local_blk = None \/ prev_blk = None
        THEN {[n |-> n, early |-> FALSE, err |-> TRUE,
               log |-> [log EXCEPT !.revert = "panic", !.after = Snap(n)]]}
        ELSE UNION {
            IF ~rv.ok
            THEN {[n |-> n, early |-> TRUE, err |-> FALSE,
                   log |-> [log EXCEPT !.revert = "err", !.after = Snap(n)]]}
            ELSE {LET b == [a.n EXCEPT !.blacklisted_blocks = @ \cup {local_hash_at_fork}]
                      m == IF ~a.ok THEN b
                           ELSE [b EXCEPT !.stalled_sm = RunningAt(remote.hash)]
                  IN  [n |-> m, early |-> FALSE, err |-> ~a.ok,
                       log |-> [log EXCEPT !.revert = "ok", !.after = Snap(m),
                                           !.reverted = get_curr_height(rv.n),
                                           !.accepts = <<AcceptLog(rv.n, remote, a)>>]]
                  : a \in try_accept_block(rv.n, remote)}
            : rv \in try_revert(n, prev_blk.state_hash)}

\* SimpleFSM::on_block_event, the arm for stall_chain_fsm::State::StalledOnFork:
\* [n, early, err, log]; early is the return of Ok(None) after a failed revert;
\* revert is "panic" when one of the two expect() finds no block, which ends
\* the task: the event then counts as failed
on_stalled_on_fork(n) ==
    LET local_hash_at_fork == n.stalled_sm.local
        remote == HeaderOf(n.stalled_sm.remote)
        local_blk == fetch_block_header(n, local_hash_at_fork)
        prev_blk == IF local_blk = None THEN None
                    ELSE fetch_block_header(n, local_blk.prev_block_hash)
        log == [NoLog EXCEPT !.branch = "stalled_on_fork", !.pre = Snap(n),
                             !.local = local_hash_at_fork, !.remote = remote.hash]
    IN  IF local_blk = None \/ prev_blk = None
        THEN {[n |-> n, early |-> FALSE, err |-> TRUE,
               log |-> [log EXCEPT !.revert = "panic", !.after = Snap(n)]]}
        ELSE UNION {
            IF ~rv.ok
            THEN {[n |-> n, early |-> TRUE, err |-> FALSE,
                   log |-> [log EXCEPT !.revert = "err", !.after = Snap(n)]]}
            ELSE {LET m == IF ~a.ok THEN a.n
                           ELSE [a.n EXCEPT !.blacklisted_blocks = @ \cup {local_hash_at_fork},
                                            !.stalled_sm = RunningAt(remote.hash)]
                  IN  [n |-> m, early |-> FALSE, err |-> ~a.ok,
                       log |-> [log EXCEPT !.revert = "ok", !.after = Snap(m),
                                           !.reverted = get_curr_height(rv.n),
                                           !.accepts = <<AcceptLog(rv.n, remote, a)>>]]
                  : a \in try_accept_block(rv.n, remote)}
            : rv \in try_revert(n, prev_blk.state_hash)}

\* SimpleFSM::on_block_event, from stalled_sm.on_block_received to the match
\* on its result
StallPart(n, blk) ==
    UNION {
        LET m == [n EXCEPT !.stalled_sm = s]
        IN  IF s.state = "StalledOnFork" THEN on_stalled_on_fork(m)
            ELSE IF s.state = "Stalled"
            THEN {LET c == [m EXCEPT !.blacklisted_blocks = {}]
                  IN  [n |-> c, early |-> FALSE, err |-> FALSE,
                       log |-> [NoLog EXCEPT !.branch = "stalled", !.after = Snap(c)]]}
            ELSE {[n |-> m, early |-> FALSE, err |-> FALSE,
                   log |-> [NoLog EXCEPT !.branch = "running", !.after = Snap(m)]]}
        : s \in on_block_received(n, blk)}

\* the result of SimpleFSM::on_block_event: ret is the hash of the block
\* returned in Ok(Some(..)), "-" for Ok(None) and for Err
Out(n, ret, err, fsm, stall) ==
    [n |-> n, ret |-> ret, err |-> err, fsm |-> fsm, stall |-> stall]

\* mutant of on_block_event: the blacklist is looked at in InSync only
on_block_event_filter_in_sync_only(n, blk, att, md) ==
    IF blk.hash \in n.blacklisted_blocks /\ n.curr.state = "InSync"
    THEN {Out(n, "-", FALSE, [NoLog EXCEPT !.branch = "blacklisted"], NoLog)}
    ELSE UNION {
        IF ~at.some
        THEN {Out(at.n, "-", FALSE, [NoLog EXCEPT !.branch = "no_att"], NoLog)}
        ELSE UNION {
            IF f.err THEN {Out(f.n, "-", TRUE, f.log, NoLog)}
            ELSE {Out(s.n, IF s.early \/ s.err THEN "-" ELSE blk.hash, s.err, f.log, s.log)
                  : s \in StallPart(f.n, blk)}
            : f \in FsmPart(at.n, blk, md)}
        : at \in attach_att_if_needed(n, blk, att)}

\* SimpleFSM::on_block_event
on_block_event(n, blk, att, md) ==
    IF blk.hash \in n.blacklisted_blocks
    THEN {Out(n, "-", FALSE, [NoLog EXCEPT !.branch = "blacklisted"], NoLog)}
    ELSE UNION {
        IF ~at.some
        THEN {Out(at.n, "-", FALSE, [NoLog EXCEPT !.branch = "no_att"], NoLog)}
        ELSE UNION {
            IF f.err THEN {Out(f.n, "-", TRUE, f.log, NoLog)}
            ELSE {Out(s.n, IF s.early \/ s.err THEN "-" ELSE blk.hash, s.err, f.log, s.log)
                  : s \in StallPart(f.n, blk)}
            : f \in FsmPart(at.n, blk, md)}
        : at \in attach_att_if_needed(n, blk, att)}

\* SimpleFSM::flood_request_block
flood_request_block(n, hash) ==
    IF cache_contains_key(n.attestations_cache, hash) THEN n
    ELSE Call([n EXCEPT !.attestations_cache = cache_insert(@, hash)],
              flood_request(hash))

\* SimpleFSM::on_quorum_msg: fetch is what fetch_candidate_block returns; the
\* block it finds is given the attestation of the quorum
on_quorum_msg(n, quorum, md, fetch) ==
    LET c == [n EXCEPT !.attestations_cache = cache_retain(@)]
        local_header == tip_header(c)
        remote_height == quorum.round
        quiet == Out(c, "-", FALSE, [NoLog EXCEPT !.branch = "quorum_ignored"], NoLog)
    IN  IF quorum.result # "Success(Valid)" THEN {quiet}
        ELSE IF remote_height > local_header.height + 1
        THEN {Out(flood_request_block(c, quorum.hash), "-", FALSE,
                  [NoLog EXCEPT !.branch = "quorum_future"], NoLog)}
        ELSE IF \/ remote_height = local_header.height + 1
                \/ remote_height = local_header.height /\ local_header.hash # quorum.hash
        THEN IF fetch = "Err"
             THEN {Out(flood_request_block(c, quorum.hash), "-", TRUE,
                       [NoLog EXCEPT !.branch = "quorum_fetch_err"], NoLog)}
             ELSE IF fetch = "Ok(None)"
             THEN {Out(c, "-", FALSE, [NoLog EXCEPT !.branch = "quorum_fetch_none"], NoLog)}
             ELSE on_block_event(c, HeaderOf(quorum.hash), TRUE, md)
        ELSE {quiet}

\* SimpleFSM::on_heartbeat_event
on_heartbeat_event(n) ==
    IF n.curr.state = "InSync" THEN InSync_on_heartbeat(n)
    ELSE {IF r.ret THEN [r.n EXCEPT !.curr = InSyncNew] ELSE r.n :
            r \in OutOfSync_on_heartbeat(n)}

\* the node when a handler is called dt seconds after the previous one, with
\* no call made yet; a timer is not counted beyond the time it expires at
Advance(n, dt) ==
    [n EXCEPT
        !.effects = <<>>,
        !.curr.since = IF n.curr.state = "OutOfSync"
                       THEN Min(@ + dt, EXPIRY_TIMEOUT_MILLIS \div 1000) ELSE @,
        !.curr.presync = IF @ = NoPresync THEN @
                         ELSE [@ EXCEPT !.age = Min(@ + dt, DEFAULT_TIMEOUT)],
        !.attestations_cache =
            {[e EXCEPT !.age = Min(@ + dt, DEFAULT_ATT_CACHE_EXPIRY)] : e \in @}]

\* ---- the node as an FSM over block events and heartbeats ----
Node ==
    [acc |-> acc, curr |-> curr, blacklisted_blocks |-> blacklisted_blocks,
     attestations_cache |-> attestations_cache, stalled_sm |-> stalled_sm,
     effects |-> effects]

\* the node as the handler called now finds it; while no timer runs the time
\* that passed makes no difference
Now ==
    IF curr.state = "OutOfSync" \/ curr.presync # NoPresync \/ attestations_cache # {}
    THEN {Advance(Node, dt) : dt \in Elapsed}
    ELSE {Advance(Node, 0)}

\* the parts of the node a handler left different from what it found
Changed(n0, n) == {f \in DOMAIN n0 : n[f] # n0[f]}

\* payload::Quorum with the round of its message header
NoQuorum == [result |-> "-", hash |-> NoHash, round |-> 0]
QuorumResults == {"Success(Valid)", "Fail"}
QuorumMsgs ==
    {[result |-> res, hash |-> b.hash, round |-> b.height] :
        res \in QuorumResults,
        b \in {x \in BlockSet : x.hash \in {"a2", "b2", "a3", "a4"}}}
\* what fetch_candidate_block returns: the candidate, no candidate, an error
FetchResults == {"Ok(Some)", "Ok(None)", "Err"}

NoFsmCall ==
    [op |-> "none", blk |-> "-", att |-> FALSE, md |-> NoMetadata,
     quorum |-> NoQuorum, fetch |-> "-",
     ret |-> "-", err |-> FALSE, fsm |-> NoLog, stall |-> NoLog, before |-> None]

\* SimpleFSM::new on a node whose ledger holds g, a1, a2
FsmIdle ==
    /\ acc = [chain |-> <<"g", "a1", "a2">>, final |-> 0]
    /\ curr = InSyncNew
    /\ blacklisted_blocks = {}
    /\ attestations_cache = {}
    /\ stalled_sm = RunningAt("a2")
    /\ effects = <<>>
    /\ fsmCall = NoFsmCall
    /\ fsmEvents = 0

\* heights the ledger may be final up to when the node starts
FinalAtStart == {0, 1, 2}

\* SimpleFSM::new
FsmInit ==
    /\ acc \in [chain : {<<"g", "a1", "a2">>}, final : FinalAtStart]
    /\ curr = InSyncNew
    /\ blacklisted_blocks = {}
    /\ attestations_cache = {}
    /\ stalled_sm = RunningAt("a2")
    /\ effects = <<>>
    /\ fsmCall = NoFsmCall
    /\ fsmEvents = 0

SetNode(n) ==
    /\ acc' = n.acc
    /\ curr' = n.curr
    /\ blacklisted_blocks' = n.blacklisted_blocks
    /\ attestations_cache' = n.attestations_cache
    /\ stalled_sm' = n.stalled_sm
    /\ effects' = n.effects

\* a call of SimpleFSM::on_block_event
BlockEventStep(blk, att, md) ==
    /\ \E n0 \in Now : \E r \in on_block_event(n0, blk, att, md) :
          /\ SetNode(r.n)
          /\ fsmCall' = [op |-> "on_block_event", blk |-> blk.hash, att |-> att,
                         md |-> md, quorum |-> NoQuorum, fetch |-> "-",
                         ret |-> r.ret, err |-> r.err,
                         fsm |-> r.fsm, stall |-> r.stall,
                         before |-> n0]
    /\ fsmEvents' = fsmEvents + 1
    /\ UNCHANGED <<regVars, consVars, nodeVars>>

OnBlockEvent(blk, att, md) ==
    fsmEvents < MaxFsmEvents /\ BlockEventStep(blk, att, md)

\* a call of SimpleFSM::on_heartbeat_event
HeartbeatStep ==
    /\ \E n0 \in Now : \E n \in on_heartbeat_event(n0) :
          /\ SetNode(n)
          /\ fsmCall' = [NoFsmCall EXCEPT !.op = "on_heartbeat_event",
                                          !.before = n0]
    /\ fsmEvents' = fsmEvents + 1
    /\ UNCHANGED <<regVars, consVars, nodeVars>>

OnHeartbeatEvent == fsmEvents < MaxFsmEvents /\ HeartbeatStep

\* what the candidate store answers in a call of on_quorum_msg: it is asked
\* only for a Success(Valid) quorum of the round after the tip, or of the
\* tip's round with another hash ("-" when it is not asked)
Fetched(n, quorum) ==
    IF /\ quorum.result = "Success(Valid)"
       /\ \/ quorum.round = get_curr_height(n) + 1
          \/ quorum.round = get_curr_height(n) /\ quorum.hash # get_curr_hash(n)
    THEN FetchResults
    ELSE {"-"}

\* a call of SimpleFSM::on_quorum_msg
OnQuorumMsg ==
    /\ fsmEvents < MaxFsmEvents
    /\ \E quorum \in QuorumMsgs, md \in Metadatas :
          \E n0 \in Now : \E fetch \in Fetched(n0, quorum) :
          \E r \in on_quorum_msg(n0, quorum, md, fetch) :
              /\ SetNode(r.n)
              /\ fsmCall' = [op |-> "on_quorum_msg", blk |-> quorum.hash, att |-> TRUE,
                             md |-> md, quorum |-> quorum, fetch |-> fetch,
                             ret |-> r.ret, err |-> r.err,
                             fsm |-> r.fsm, stall |-> r.stall,
                             before |-> n0]
    /\ fsmEvents' = fsmEvents + 1
    /\ UNCHANGED <<regVars, consVars, nodeVars>>

\* a block taken from a peer's candidate store arrives: it has no attestation
CandidateBlockEvent ==
    \E blk \in RemoteBlocks, md \in Metadatas : OnBlockEvent(blk, FALSE, md)

\* a block with its attestation arrives
FsmBlockEvent ==
    \E blk \in RemoteBlocks, md \in Metadatas : OnBlockEvent(blk, TRUE, md)

\* ---- the node during a bulk sync ----

\* the node right after SimpleFSM::new
IdleNode ==
    [acc |-> [chain |-> <<"g", "a1", "a2">>, final |-> 0], curr |-> InSyncNew,
     blacklisted_blocks |-> {}, attestations_cache |-> {},
     stalled_sm |-> RunningAt("a2"), effects |-> <<>>]

\* the blocks a peer announces as its tip, and the peer the node syncs with
SyncTargets == {HeaderOf("a4"), HeaderOf("a5"), HeaderOf("a6")}
SyncPeer == "p1"

\* the nodes that have just entered OutOfSync: SyncPeer sent a block of
\* SyncTargets and then a3, which was accepted
EnteredSync ==
    LET first == UNION {on_block_event(IdleNode, T, TRUE, SyncPeer) : T \in SyncTargets}
        second == UNION {on_block_event(Advance(o.n, 0), HeaderOf("a3"), TRUE, SyncPeer) :
                            o \in first}
    IN  {o.n : o \in {r \in second : r.n.curr.state = "OutOfSync"}}

SyncInit ==
    /\ \E n \in EnteredSync :
          /\ acc = n.acc
          /\ curr = n.curr
          /\ blacklisted_blocks = n.blacklisted_blocks
          /\ attestations_cache = n.attestations_cache
          /\ stalled_sm = n.stalled_sm
          /\ effects = n.effects
    /\ fsmCall = NoFsmCall
    /\ fsmEvents = 0

\* blocks that arrive during the sync
SyncBlocks == {b \in BlockSet : b.height \in 4 .. 7}

SyncBlockEvent ==
    /\ fsmEvents < MaxSyncEvents
    /\ \E blk \in SyncBlocks, md \in Metadatas : BlockEventStep(blk, TRUE, md)

SyncHeartbeat == fsmEvents < MaxSyncEvents /\ HeartbeatStep

-----------------------------------------------------------------------------
(***************************************************************************)
(* Header validator: node/src/chain/header_validation.rs                   *)
(*                                                                         *)
(* The checks are operators from the validator v (prev_header and the      *)
(* hashes in the ledger) and the candidate header.  The signatures are not *)
(* computed: an attestation says for each of its two step-votes what       *)
(* verify_step_votes finds (an error, a quorum, no quorum), and the seed   *)
(* says what was signed and by whom.                                       *)
(***************************************************************************)
\* MARGIN_TIMESTAMP
MARGIN_TIMESTAMP == 3
\* dusk_consensus::config::MINIMUM_BLOCK_TIME
MINIMUM_BLOCK_TIME == 10
\* timestamp of the previous header
PrevTime == 100

\* provisioner keys
PublicKeys == {"pk0", "pk1"}
\* generator_bls_pubkey of the candidate headers
CandidateGenerator == "pk0"

\* Provisioners::get_generator(iteration, seed, round): the sortition is
\* taken to elect pk0 for the even and pk1 for the odd iterations
get_generator(iteration, seed, round) ==
    IF iteration % 2 = 0 THEN "pk0" ELSE "pk1"

\* previous headers a validator is made for, each with the ledger it closes
GenesisValidator ==
    [prev_header |-> [hash |-> "g", height |-> 0, timestamp |-> PrevTime,
                      seed |-> "seed_g", prev_block_hash |-> "-", iteration |-> 0],
     db |-> {"g"}]
TipValidator ==
    [prev_header |-> [hash |-> "a2", height |-> 2, timestamp |-> PrevTime,
                      seed |-> "seed_a2", prev_block_hash |-> "a1", iteration |-> 1],
     db |-> {"g", "a1", "a2"}]
Validators == {GenesisValidator, TipValidator}

\* ledger::Attestation: its result and what verify_step_votes finds for the
\* step-votes of the two steps
StepVotesChecks == {"invalid", "quorum", "no_quorum"}
Att(result, validation, ratification) ==
    [result |-> result, validation |-> validation, ratification |-> ratification]
\* attestations of failed iterations found in headers
FailedAtts ==
    {Att("Fail", "quorum", "quorum"), Att("Fail", "no_quorum", "quorum"),
     Att("Fail", "quorum", "no_quorum"), Att("Fail", "invalid", "quorum"),
     Att("Success", "quorum", "quorum")}
\* attestations of blocks found in headers (att and prev_block_cert)
BlockAtts ==
    {Att("Success", "quorum", "quorum"), Att("Success", "quorum", "invalid")}

\* a slot of failed_iterations.att_list: None or Some((att, pk))
Slots == {None} \cup [att : FailedAtts, pk : PublicKeys]

\* longest att_list explored
MaxSlots == 2

\* the lists of at most n slots
RECURSIVE AttLists(_)
AttLists(n) ==
    IF n = 0 THEN {<<>>}
    ELSE LET shorter == AttLists(n - 1)
         IN  shorter \cup {Append(l, s) : l \in {x \in shorter : Len(x) = n - 1}, s \in Slots}

\* the seed field: what it signs and whose signature it is
SeedFields == [signed : {"seed_g", "seed_a2"}, by : PublicKeys]

\* SystemTime::now() in seconds
LocalTimes == {PrevTime + MINIMUM_BLOCK_TIME - 2, PrevTime + MINIMUM_BLOCK_TIME}
\* timestamps of candidate headers: around both bounds for each local time
Timestamps ==
    (PrevTime + MINIMUM_BLOCK_TIME - 1) .. (PrevTime + MINIMUM_BLOCK_TIME + MARGIN_TIMESTAMP + 1)

\* ledger::Header of a candidate
Header(version, hash, height, timestamp, prev_block_hash, seed, iteration, att, prev_block_cert, att_list) ==
    [version |-> version, hash |-> hash, height |-> height, timestamp |-> timestamp,
     prev_block_hash |-> prev_block_hash, seed |-> seed,
     generator_bls_pubkey |-> CandidateGenerator, iteration |-> iteration,
     att |-> att, prev_block_cert |-> prev_block_cert,
     failed_iterations |-> att_list]

\* the result of a check: ok, or the error it returned ("panic" when the
\* call panicked); pni is the value inside Ok of verify_failed_iterations;
\* verified lists the attestations handed to verify_block_att, in order,
\* each with the iteration it is verified for
HvOk(pni, verified) == [ok |-> TRUE, err |-> "-", pni |-> pni, verified |-> verified]
HvErr(err, verified) == [ok |-> FALSE, err |-> err, pni |-> -1, verified |-> verified]

\* Validator::verify_seed_field
verify_seed_field(v, seed, pk) ==
    IF seed.by = pk /\ seed.signed = v.prev_header.seed THEN "-" ELSE "invalid seed"

\* mutant of verify_basic_fields: both timestamp bounds are exclusive
verify_basic_fields_strict(v, c, local_time) ==
    IF c.version > 0 THEN "unsupported block version"
    ELSE IF c.hash = ZeroHash THEN "empty block hash"
    ELSE IF c.height # v.prev_header.height + 1 THEN "invalid block height"
    ELSE IF c.timestamp <= v.prev_header.timestamp + MINIMUM_BLOCK_TIME
    THEN "block time is less than minimum block time"
    ELSE IF c.timestamp >= local_time + MARGIN_TIMESTAMP
    THEN "block timestamp is higher than local time"
    ELSE IF c.prev_block_hash # v.prev_header.hash THEN "invalid previous block hash"
    ELSE IF c.hash \in v.db THEN "block already exists"
    ELSE verify_seed_field(v, c.seed, c.generator_bls_pubkey)

\* Validator::verify_basic_fields: "-" for Ok(()), else the error
verify_basic_fields(v, c, local_time) ==
    IF c.version > 0 THEN "unsupported block version"
    ELSE IF c.hash = ZeroHash THEN "empty block hash"
    ELSE IF c.height # v.prev_header.height + 1 THEN "invalid block height"
    ELSE IF c.timestamp < v.prev_header.timestamp + MINIMUM_BLOCK_TIME
    THEN "block time is less than minimum block time"
    ELSE IF c.timestamp > local_time + MARGIN_TIMESTAMP
    THEN "block timestamp is higher than local time"
    ELSE IF c.prev_block_hash # v.prev_header.hash THEN "invalid previous block hash"
    ELSE IF c.hash \in v.db THEN "block already exists"
    ELSE verify_seed_field(v, c.seed, c.generator_bls_pubkey)

\* verify_block_att: the validation step-votes are verified first, then the
\* ratification step-votes; rat_quorum tells whether result.1 reached quorum
verify_block_att(att) ==
    IF att.validation = "invalid" THEN [err |-> "invalid validation", rat_quorum |-> FALSE]
    ELSE IF att.ratification = "invalid"
    THEN [err |-> "invalid ratification", rat_quorum |-> FALSE]
    ELSE [err |-> "-", rat_quorum |-> att.ratification = "quorum"]

\* Validator::verify_prev_block_cert
verify_prev_block_cert(v, c) ==
    IF v.prev_header.height = 0 THEN HvOk(-1, <<>>)
    ELSE LET r == verify_block_att(c.prev_block_cert)
         IN  IF r.err # "-" THEN HvErr(r.err, <<<<"prev_block_cert", v.prev_header.iteration>>>>)
             ELSE HvOk(-1, <<<<"prev_block_cert", v.prev_header.iteration>>>>)

\* Validator::verify_success_att
verify_success_att(v, c) ==
    LET r == verify_block_att(c.att)
    IN  IF r.err # "-" THEN HvErr(r.err, <<<<"att", c.iteration>>>>)
        ELSE HvOk(-1, <<<<"att", c.iteration>>>>)

\* mutant of FailedLoop: a slot carrying a Success is verified like any other
RECURSIVE FailedLoop_success_allowed(_, _, _, _)
FailedLoop_success_allowed(v, c, i, st) ==
    IF i >= Len(c.failed_iterations) THEN st
    ELSE LET slot == c.failed_iterations[i + 1]
         IN  IF slot = None THEN FailedLoop_success_allowed(v, c, i + 1, st)
             ELSE IF slot.pk # get_generator(i % 256, v.prev_header.seed, c.height)
             THEN [st EXCEPT !.err = "Invalid generator"]
             ELSE LET r == verify_block_att(slot.att)
                      seen == Append(st.verified, <<"failed", i>>)
                  IN  IF r.err # "-"
                      THEN [st EXCEPT !.err = r.err, !.verified = seen]
                      ELSE FailedLoop_success_allowed(v, c, i + 1,
                               [st EXCEPT !.verified = seen,
                                          !.failed_atts = IF r.rat_quorum
                                                          THEN (@ + 1) % 256 ELSE @])

\* the loop of verify_failed_iterations over the slots from index i (iter) on
\* (the list is 1-based here: slot i is att_list[i + 1]);
\* st is [failed_atts, err, verified]
RECURSIVE FailedLoop(_, _, _, _)
FailedLoop(v, c, i, st) ==
    IF i >= Len(c.failed_iterations) THEN st
    ELSE LET slot == c.failed_iterations[i + 1]
         IN  IF slot = None THEN FailedLoop(v, c, i + 1, st)
             ELSE IF slot.att.result = "Success"
             THEN [st EXCEPT !.err = "failed iterations with Success"]
             ELSE IF slot.pk # get_generator(i % 256, v.prev_header.seed, c.height)
             THEN [st EXCEPT !.err = "Invalid generator"]
             ELSE LET r == verify_block_att(slot.att)
                      seen == Append(st.verified, <<"failed", i>>)
                  IN  IF r.err # "-"
                      THEN [st EXCEPT !.err = r.err, !.verified = seen]
                      ELSE FailedLoop(v, c, i + 1,
                               [st EXCEPT !.verified = seen,
                                          !.failed_atts = IF r.rat_quorum
                                                          THEN (@ + 1) % 256 ELSE @])

\* Validator::verify_failed_iterations: the set of results the call can
\* have.  candidate_block.iteration - failed_atts is a subtraction of u8:
\* below zero it panics in a build with overflow checks and wraps in a
\* build without.
verify_failed_iterations(v, c) ==
    LET st == FailedLoop(v, c, 0, [failed_atts |-> 0, err |-> "-", verified |-> <<>>])
    IN  IF st.err # "-" THEN {HvErr(st.err, st.verified)}
        ELSE IF c.iteration >= st.failed_atts
        THEN {HvOk(c.iteration - st.failed_atts, st.verified)}
        ELSE {HvErr("panic", st.verified),
              HvOk((c.iteration - st.failed_atts) % 256, st.verified)}

\* mutant of execute_checks: the attestations are verified before the basic
\* fields
execute_checks_atts_first(v, c, local_time, disable_winner_att_check) ==
    LET prev == verify_prev_block_cert(v, c)
        win == IF disable_winner_att_check THEN HvOk(-1, <<>>)
               ELSE verify_success_att(v, c)
        basic == verify_basic_fields(v, c, local_time)
    IN  IF ~prev.ok THEN {prev}
        ELSE IF ~win.ok THEN {HvErr(win.err, prev.verified \o win.verified)}
        ELSE IF basic # "-" THEN {HvErr(basic, prev.verified \o win.verified)}
        ELSE {[r EXCEPT !.verified = prev.verified \o win.verified \o @] :
                r \in verify_failed_iterations(v, c)}

\* Validator::execute_checks: the set of results the call can have
execute_checks(v, c, local_time, disable_winner_att_check) ==
    LET basic == verify_basic_fields(v, c, local_time)
        prev == verify_prev_block_cert(v, c)
        win == IF disable_winner_att_check THEN HvOk(-1, <<>>)
               ELSE verify_success_att(v, c)
    IN  IF basic # "-" THEN {HvErr(basic, <<>>)}
        ELSE IF ~prev.ok THEN {prev}
        ELSE IF ~win.ok THEN {HvErr(win.err, prev.verified \o win.verified)}
        ELSE {[r EXCEPT !.verified = prev.verified \o win.verified \o @] :
                r \in verify_failed_iterations(v, c)}

\* ---- the validator as a machine: one call after another ----
NoHeader ==
    Header(0, "-", 0, 0, "-", [signed |-> "-", by |-> "-"], 0,
           Att("-", "-", "-"), Att("-", "-", "-"), <<>>)
NoHvCall ==
    [op |-> "none", c |-> NoHeader, local_time |-> 0, disable |-> FALSE,
     res |-> HvOk(-1, <<>>)]

\* no validator is in use: the node validates no header
HdrIdle ==
    /\ validator = GenesisValidator
    /\ hvCall = NoHvCall

\* Validator::new
HdrInit ==
    /\ validator \in Validators
    /\ hvCall = NoHvCall

\* headers whose attestations are all in order, for the calls of
\* verify_basic_fields
BasicHeaders ==
    {Header(version, hash, height, timestamp, prev_block_hash, seed, 0,
            Att("Success", "quorum", "quorum"), Att("Success", "quorum", "quorum"), <<>>) :
        version \in {0, 1}, hash \in {ZeroHash, "c", "g"}, height \in {1, 3},
        timestamp \in Timestamps, prev_block_hash \in {"g", "a2"}, seed \in SeedFields}

\* headers that differ in their failed iterations only, for the calls of
\* verify_failed_iterations
FailedHeaders ==
    {Header(0, "c", 3, PrevTime + MINIMUM_BLOCK_TIME, "a2",
            [signed |-> "seed_a2", by |-> CandidateGenerator], iteration,
            Att("Success", "quorum", "quorum"), Att("Success", "quorum", "quorum"),
            att_list) :
        iteration \in 0 .. MaxSlots, att_list \in AttLists(MaxSlots)}

\* headers for the calls of execute_checks: any of the basic fields may be
\* wrong, with attestations right or wrong
FullHeaders ==
    {Header(version, hash, height, timestamp, prev_block_hash,
            [signed |-> signed, by |-> CandidateGenerator], iteration,
            att, prev_block_cert, att_list) :
        version \in {0, 1}, hash \in {ZeroHash, "c", "g"}, height \in {1, 3},
        timestamp \in {PrevTime + MINIMUM_BLOCK_TIME - 1, PrevTime + MINIMUM_BLOCK_TIME},
        prev_block_hash \in {"g", "a2"}, signed \in {"seed_g", "seed_a2"},
        iteration \in {0, 1}, att \in BlockAtts, prev_block_cert \in BlockAtts,
        att_list \in AttLists(1)}

HvCalled(op, c, local_time, disable, res) ==
    /\ hvCall' = [op |-> op, c |-> c, local_time |-> local_time, disable |-> disable,
                  res |-> res]
    /\ UNCHANGED <<validator, regVars, consVars, fsmVars, mpVars, propVars, phaseVars>>

\* a validator is made for one header and checks it once
Unused == hvCall = NoHvCall

\* a call of Validator::verify_basic_fields
VerifyBasicFields ==
    /\ Unused
    /\ \E c \in BasicHeaders, local_time \in LocalTimes :
          LET err == verify_basic_fields(validator, c, local_time)
          IN  HvCalled("verify_basic_fields", c, local_time, FALSE,
                       IF err = "-" THEN HvOk(-1, <<>>) ELSE HvErr(err, <<>>))

\* a call of Validator::verify_failed_iterations
VerifyFailedIterations ==
    /\ Unused
    /\ \E c \in FailedHeaders : \E res \in verify_failed_iterations(validator, c) :
          HvCalled("verify_failed_iterations", c, 0, FALSE, res)

\* a call of Validator::execute_checks
ExecuteChecks ==
    /\ Unused
    /\ \E c \in FullHeaders, local_time \in LocalTimes, disable \in BOOLEAN :
          \E res \in execute_checks(validator, c, local_time, disable) :
              HvCalled("execute_checks", c, local_time, disable, res)

-----------------------------------------------------------------------------
(***************************************************************************)
(* Mempool service: node/src/mempool.rs                                    *)
(*                                                                         *)
(* The mempool table of the db is the set of [id, age], age the seconds    *)
(* since add_tx stored the transaction (not counted beyond the age at      *)
(* which it expires).  The service loop is a sequence of steps, each the   *)
(* branch of the select! that is taken; the clock, the interval and the    *)
(* arrival of messages are steps of the environment.                       *)
(***************************************************************************)
\* conf.max_mempool_txn_count (scaled down)
max_mempool_txn_count == 3
\* conf.mempool_expiry, in seconds (scaled down)
mempool_expiry == 1
\* conf.max_queue_size (scaled down)
max_queue_size == 1

\* ledger::Transaction: id, spend ids and gas price
Tx(id, spend_ids, gas_price) == [id |-> id, spend_ids |-> spend_ids, gas_price |-> gas_price]
Transactions ==
    {Tx("tA", {"s1"}, 5), Tx("tB", {"s1"}, 6), Tx("tC", {"s1"}, 6),
     Tx("tD", {"s2"}, 5), Tx("tE", {"s1", "s2"}, 6), Tx("tF", {"s3"}, 5),
     Tx("tG", {"s4"}, 5), Tx("tL", {"s5"}, 5)}
TxOf(id) == CHOOSE tx \in Transactions : tx.id = id
\* transactions found in the blocks of the ledger
LedgerTxs == {"tL"}

\* payloads of the messages routed to the service
NotATx == "other"
InboundPayloads == {tx.id : tx \in Transactions} \cup {NotATx}

\* ---- the mempool table of the db (database::Mempool) ----
txs_count(db) == Cardinality(db)
get_tx_exists(db, tx_id) == \E e \in db : e.id = tx_id
get_ledger_tx_exists(tx_id) == tx_id \in LedgerTxs
\* mutant of get_txs_by_spendable_ids: a transaction is found only when all
\* its spend ids are asked for
get_txs_by_spendable_ids_all(db, spend_ids) ==
    {e.id : e \in {x \in db : TxOf(x.id).spend_ids \subseteq spend_ids}}
get_txs_by_spendable_ids(db, spend_ids) ==
    {e.id : e \in {x \in db : TxOf(x.id).spend_ids \cap spend_ids # {}}}
delete_tx(db, tx_id) == {e \in db : e.id # tx_id}
add_tx(db, tx) == db \cup {[id |-> tx.id, age |-> 0]}
\* the transactions stored before expiration_time = now - mempool_expiry
get_expired_txs(db) == {e.id : e \in {x \in db : x.age > mempool_expiry}}

\* TransactionEvent
Removed(tx_id) == [event |-> "Removed", id |-> tx_id]
Included(tx) == [event |-> "Included", id |-> tx.id]

\* the orders a set of ids can be iterated in
RECURSIVE Orders(_)
Orders(ids) ==
    IF ids = {} THEN {<<>>}
    ELSE UNION {{<<id>> \o rest : rest \in Orders(ids \ {id})} : id \in ids}

RemovedEvents(order) == [k \in 1 .. Len(order) |-> Removed(order[k])]

\* the result of accept_tx: the db after it, "ok" or the error, and the
\* events handed to event_sender.try_send, in order
Accepted(db, res, events) == [db |-> db, res |-> res, events |-> events]

\* mutant of accept_tx: a full mempool takes one more transaction
accept_tx_count_gt(db, tx, preverify) ==
    IF txs_count(db) > max_mempool_txn_count
    THEN {Accepted(db, "MaxTxnCountExceeded", <<>>)}
    ELSE IF get_tx_exists(db, tx.id) THEN {Accepted(db, "AlreadyExistsInMempool", <<>>)}
    ELSE IF get_ledger_tx_exists(tx.id) THEN {Accepted(db, "AlreadyExistsInLedger", <<>>)}
    ELSE IF ~preverify THEN {Accepted(db, "VerificationFailed", <<>>)}
    ELSE LET incumbents == get_txs_by_spendable_ids(db, tx.spend_ids)
         IN  IF \E m \in incumbents : ~(TxOf(m).gas_price < tx.gas_price)
             THEN {Accepted(db, "Generic(SpendIdExistsInMempool)", <<>>)}
             ELSE {Accepted(add_tx({e \in db : e.id \notin incumbents}, tx), "ok",
                            RemovedEvents(order) \o <<Included(tx)>>)
                   : order \in Orders(incumbents)}

\* mutant of accept_tx: a transaction that is in the mempool is stored again
accept_tx_no_exists_check(db, tx, preverify) ==
    IF txs_count(db) >= max_mempool_txn_count
    THEN {Accepted(db, "MaxTxnCountExceeded", <<>>)}
    ELSE IF get_ledger_tx_exists(tx.id) THEN {Accepted(db, "AlreadyExistsInLedger", <<>>)}
    ELSE IF ~preverify THEN {Accepted(db, "VerificationFailed", <<>>)}
    ELSE LET incumbents == get_txs_by_spendable_ids(db, tx.spend_ids) \ {tx.id}
         IN  IF \E m \in incumbents : ~(TxOf(m).gas_price < tx.gas_price)
             THEN {Accepted(db, "Generic(SpendIdExistsInMempool)", <<>>)}
             ELSE {Accepted(add_tx({e \in db : e.id \notin incumbents /\ e.id # tx.id}, tx), "ok",
                            RemovedEvents(order) \o <<Included(tx)>>)
                   : order \in Orders(incumbents)}

\* mutant of accept_tx: the incumbents deleted before the update failed
\* stay deleted
accept_tx_no_rollback(db, tx, preverify) ==
    IF txs_count(db) >= max_mempool_txn_count
    THEN {Accepted(db, "MaxTxnCountExceeded", <<>>)}
    ELSE IF get_tx_exists(db, tx.id) THEN {Accepted(db, "AlreadyExistsInMempool", <<>>)}
    ELSE IF get_ledger_tx_exists(tx.id) THEN {Accepted(db, "AlreadyExistsInLedger", <<>>)}
    ELSE IF ~preverify THEN {Accepted(db, "VerificationFailed", <<>>)}
    ELSE LET incumbents == get_txs_by_spendable_ids(db, tx.spend_ids)
             cheaper == {m \in incumbents : TxOf(m).gas_price < tx.gas_price}
         IN  IF cheaper # incumbents
             THEN {Accepted({e \in db : e.id \notin cheaper},
                            "Generic(SpendIdExistsInMempool)", <<>>)}
             ELSE {Accepted(add_tx({e \in db : e.id \notin incumbents}, tx), "ok",
                            RemovedEvents(order) \o <<Included(tx)>>)
                   : order \in Orders(incumbents)}

\* MempoolSrv::accept_tx: the set of results the call can have (the order
\* the incumbents are visited in is the db's); preverify is what the VM
\* answers.  The error raised inside db.update is an anyhow::Error, which
\* the `?` after the update turns into TxAcceptanceError::Generic; an update
\* that fails leaves the db as it was.
accept_tx(db, tx, preverify) ==
    IF txs_count(db) >= max_mempool_txn_count
    THEN {Accepted(db, "MaxTxnCountExceeded", <<>>)}
    ELSE IF get_tx_exists(db, tx.id) THEN {Accepted(db, "AlreadyExistsInMempool", <<>>)}
    ELSE IF get_ledger_tx_exists(tx.id) THEN {Accepted(db, "AlreadyExistsInLedger", <<>>)}
    ELSE IF ~preverify THEN {Accepted(db, "VerificationFailed", <<>>)}
    ELSE LET incumbents == get_txs_by_spendable_ids(db, tx.spend_ids)
         IN  IF \E m \in incumbents : ~(TxOf(m).gas_price < tx.gas_price)
             THEN {Accepted(db, "Generic(SpendIdExistsInMempool)", <<>>)}
             ELSE {Accepted(add_tx({e \in db : e.id \notin incumbents}, tx), "ok",
                            RemovedEvents(order) \o <<Included(tx)>>)
                   : order \in Orders(incumbents)}

\* mutant of on_idle: a transaction expires at the age mempool_expiry
on_idle_inclusive(db) ==
    LET expired_txs == {e.id : e \in {x \in db : x.age >= mempool_expiry}}
    IN  {Accepted({e \in db : e.id \notin expired_txs}, "ok", RemovedEvents(order))
         : order \in Orders(expired_txs)}

\* the on_idle_event branch of the service loop
on_idle(db) ==
    LET expired_txs == get_expired_txs(db)
    IN  {Accepted({e \in db : e.id \notin expired_txs}, "ok", RemovedEvents(order))
         : order \in Orders(expired_txs)}

\* tokio::select! with `biased;`: the branches are polled in the order they
\* are written in, the tick first
select(tick, msg) ==
    IF tick THEN {"idle"} ELSE IF msg THEN {"recv"} ELSE {}

\* free places of the event channel when a step sends its events: try_send
\* drops an event (with a warning) when there is none
Rooms == {0, 3}

\* ---- the service as a machine ----
\* what the service leaves alone
mpRest == <<regVars, consVars, fsmVars, hdrVars, propVars, phaseVars>>

NoMpCall ==
    [op |-> "none", payload |-> "-", preverify |-> FALSE, res |-> "-", events |-> <<>>,
     sent |-> 0, broadcast |-> FALSE, before |-> {}, after |-> {},
     tick_was_ready |-> FALSE, msg_was_ready |-> FALSE]

\* no mempool service runs
MpIdle ==
    /\ mempool = {}
    /\ mp_inbound = <<>>
    /\ tick_ready = FALSE
    /\ mpCall = NoMpCall

\* MempoolSrv::new and the start of execute: the first tick of a
\* tokio::time::interval completes at once
MpInit ==
    /\ mempool = {}
    /\ mp_inbound = <<>>
    /\ tick_ready = TRUE
    /\ mpCall = NoMpCall

\* a step of the loop with result r: the events are handed to try_send one
\* by one and the first `room` of them are taken
MpStep(op, payload, preverify, r, room, broadcast) ==
    /\ mempool' = r.db
    /\ mpCall' = [op |-> op, payload |-> payload, preverify |-> preverify,
                  res |-> r.res, events |-> r.events,
                  sent |-> IF Len(r.events) < room THEN Len(r.events) ELSE room,
                  broadcast |-> broadcast, before |-> mempool, after |-> r.db,
                  tick_was_ready |-> tick_ready, msg_was_ready |-> mp_inbound # <<>>]

\* the loop takes the on_idle_event branch
MpOnIdle ==
    /\ "idle" \in select(tick_ready, mp_inbound # <<>>)
    /\ \E r \in on_idle(mempool), room \in Rooms :
          MpStep("idle", "-", FALSE, r, room, FALSE)
    /\ tick_ready' = FALSE
    /\ UNCHANGED <<mp_inbound, mpRest>>

\* the loop takes the inbound.recv branch: a transaction goes to accept_tx
\* and is broadcast when accepted, any other payload is logged
MpRecv ==
    /\ "recv" \in select(tick_ready, mp_inbound # <<>>)
    /\ LET payload == Head(mp_inbound)
       IN  IF payload = NotATx
           THEN MpStep("recv", payload, FALSE,
                       Accepted(mempool, "invalid payload", <<>>), 0, FALSE)
           ELSE \E preverify \in BOOLEAN, room \in Rooms :
                  \E r \in accept_tx(mempool, TxOf(payload), preverify) :
                      MpStep("recv", payload, preverify, r, room, r.res = "ok")
    /\ mp_inbound' = Tail(mp_inbound)
    /\ UNCHANGED <<tick_ready, mpRest>>

\* a Tx message (or another one) is routed to the service
MpInbound ==
    /\ Len(mp_inbound) < max_queue_size
    /\ \E payload \in InboundPayloads : mp_inbound' = Append(mp_inbound, payload)
    /\ UNCHANGED <<mempool, tick_ready, mpCall, mpRest>>

\* a second passes
MpSecond ==
    /\ \E e \in mempool : e.age <= mempool_expiry
    /\ mempool' = {[e EXCEPT !.age = IF @ <= mempool_expiry THEN @ + 1 ELSE @] : e \in mempool}
    /\ UNCHANGED <<mp_inbound, tick_ready, mpCall, mpRest>>

\* idle_interval has passed since the last tick
MpInterval ==
    /\ ~tick_ready
    /\ tick_ready' = TRUE
    /\ UNCHANGED <<mempool, mp_inbound, mpCall, mpRest>>

-----------------------------------------------------------------------------
(***************************************************************************)
(* Proposal handler: consensus/src/proposal/handler.rs                     *)
(*                                                                         *)
(* A message says whether its signature verifies; the merkle root of a     *)
(* list of transaction hashes is the list itself under a tag.              *)
(***************************************************************************)
\* most candidate blocks kept in the store
MaxStored == 1

\* merkle::merkle_root
merkle_root(tx_hashes) == <<"root", tx_hashes>>

\* the hashes of the transactions a candidate block carries
TxHashLists == {<<>>, <<"x1">>}
\* candidate blocks: header.prev_block_hash, header.txroot and txs
CandidateBlocks ==
    [prev_block_hash : {"h1", "h2"},
     txroot : {merkle_root(l) : l \in TxHashLists},
     txs : TxHashLists]
NoBlock == [prev_block_hash |-> "-", txroot |-> merkle_root(<<>>), txs |-> <<>>]

\* consensus messages: the kind of the payload, the candidate of a
\* Candidate payload and whether its signature verifies, and the header
ProposalMsgs ==
    [payload : {"Candidate"}, candidate : CandidateBlocks, signature_ok : BOOLEAN,
     prev_block_hash : {"h1", "h2"}, pubkey_bls : PublicKeys]
    \cup [payload : {"Validation"}, candidate : {NoBlock}, signature_ok : {TRUE},
          prev_block_hash : {"h1", "h2"}, pubkey_bls : PublicKeys]
\* the committees of a Proposal step
Committees == {{"pk0"}, {"pk0", "pk1"}}

\* Committee::is_member
is_member(committee, pubkey_bls) == pubkey_bls \in committee

\* ProposalHandler::unwrap_msg: whether the payload is a Candidate
unwrap_msg(msg) == msg.payload = "Candidate"

\* mutant of verify_new_block: the committee is looked at before the block
verify_new_block_member_first(msg, committee) ==
    IF ~unwrap_msg(msg) THEN "InvalidMsgType"
    ELSE IF ~msg.signature_ok THEN "InvalidSignature"
    ELSE IF ~is_member(committee, msg.pubkey_bls) THEN "NotCommitteeMember"
    ELSE IF msg.prev_block_hash # msg.candidate.prev_block_hash THEN "InvalidBlockHash"
    ELSE IF merkle_root(msg.candidate.txs) # msg.candidate.txroot THEN "InvalidBlock"
    ELSE "ok"

\* ProposalHandler::verify_new_block: "ok" or the ConsensusError
verify_new_block(msg, committee) ==
    IF ~unwrap_msg(msg) THEN "InvalidMsgType"
    ELSE IF ~msg.signature_ok THEN "InvalidSignature"
    ELSE IF msg.prev_block_hash # msg.candidate.prev_block_hash THEN "InvalidBlockHash"
    ELSE IF merkle_root(msg.candidate.txs) # msg.candidate.txroot THEN "InvalidBlock"
    ELSE IF ~is_member(committee, msg.pubkey_bls) THEN "NotCommitteeMember"
    ELSE "ok"

\* ProposalHandler::verify
verify(msg, committee) == verify_new_block(msg, committee)

\* Message::empty
EmptyMessage ==
    [payload |-> "Empty", candidate |-> NoBlock, signature_ok |-> FALSE,
     prev_block_hash |-> "-", pubkey_bls |-> "-"]

\* mutant of collect: the candidate is not stored
collect_no_store(db, msg) ==
    IF ~unwrap_msg(msg) THEN [db |-> db, res |-> "InvalidMsgType", out |-> <<>>]
    ELSE [db |-> db, res |-> "ok", out |-> <<msg>>]

\* ProposalHandler::collect: the store after the call, the result and the
\* HandleMsgOutput (<<>> for None, <<m>> for Some(m))
collect(db, msg) ==
    IF ~unwrap_msg(msg) THEN [db |-> db, res |-> "InvalidMsgType", out |-> <<>>]
    ELSE [db |-> db \cup {msg.candidate}, res |-> "ok", out |-> <<msg>>]

\* ProposalHandler::collect_from_past
collect_from_past(db, msg) == [db |-> db, res |-> "ok", out |-> <<>>]

\* ProposalHandler::handle_timeout
handle_timeout(db) == [db |-> db, res |-> "ok", out |-> <<EmptyMessage>>]

\* ---- the handler as a machine ----
NoPhCall ==
    [op |-> "none", msg |-> CHOOSE msg \in ProposalMsgs : TRUE, committee |-> {},
     res |-> "-", out |-> <<>>, before |-> {}]

\* ProposalHandler::new on an empty candidate store
PhIdle ==
    /\ candidate_db = {}
    /\ phCall = NoPhCall

phRest == <<regVars, consVars, fsmVars, hdrVars, mpVars, phaseVars>>

\* a call of ProposalHandler::verify
PhVerify ==
    /\ \E msg \in ProposalMsgs, committee \in Committees :
          phCall' = [op |-> "verify", msg |-> msg, committee |-> committee,
                     res |-> verify(msg, committee), out |-> <<>>,
                     before |-> candidate_db]
    /\ UNCHANGED <<candidate_db, phRest>>

\* a call of a handler that takes a message: the store and the call record
PhCalled(op, msg, r) ==
    /\ candidate_db' = r.db
    /\ phCall' = [op |-> op, msg |-> msg, committee |-> {}, res |-> r.res,
                  out |-> r.out, before |-> candidate_db]
    /\ UNCHANGED phRest

\* a call of ProposalHandler::collect
PhCollect ==
    /\ Cardinality(candidate_db) < MaxStored
    /\ \E msg \in ProposalMsgs : PhCalled("collect", msg, collect(candidate_db, msg))

\* a call of ProposalHandler::collect_from_past
PhCollectFromPast ==
    \E msg \in ProposalMsgs :
        PhCalled("collect_from_past", msg, collect_from_past(candidate_db, msg))

\* a call of ProposalHandler::handle_timeout
PhHandleTimeout ==
    PhCalled("handle_timeout", NoPhCall.msg, handle_timeout(candidate_db))

-----------------------------------------------------------------------------
(***************************************************************************)
(* Phase: consensus/src/phase.rs                                           *)
(*                                                                         *)
(* The context keeps the committee saved for each step of the round; the   *)
(* generator of an iteration is the member of the committee saved for its  *)
(* Proposal step.  An Option is a sequence of at most one element.         *)
(***************************************************************************)
\* iterations of the round a phase is run for
MaxPhaseIter == 2
PhaseSteps == 0 .. (STEP_NUM * MaxPhaseIter - 1)

\* ctx.provisioners
Provisioners == {"pk0", "pk1", "pk2"}

NoCommittee == [step |-> 255, excluded |-> <<>>, members |-> {}]

\* Committee::new(provisioners, get_sortition_config(size, exclusion)): one
\* seat for a Proposal step, the provisioners left by the exclusion otherwise
Committee_new(step, exclusion) ==
    [step |-> step, excluded |-> exclusion,
     members |->
        IF to_step_name(step) = "Proposal"
        THEN {get_generator(from_step(step), "seed", 1)}
        ELSE Provisioners \ {exclusion[k] : k \in 1 .. Len(exclusion)}]

\* iter_ctx.get_generator(iteration): the member of the committee saved for
\* the Proposal step of the iteration, if there is one
iter_get_generator(committees, iteration) ==
    LET c == committees[step_from_name(iteration, "Proposal")]
    IN  IF c = NoCommittee THEN <<>> ELSE <<CHOOSE pk \in c.members : TRUE>>

\* ctx.save_committee
save_committee(committees, step, committee) ==
    [committees EXCEPT ![step] = committee]

\* mutant of Phase_exclusion: the generator of iteration 0 is excluded
Phase_exclusion_first_iteration(committees, step) ==
    IF to_step_name(step) = "Proposal" THEN [ok |-> TRUE, value |-> <<>>]
    ELSE LET generator == iter_get_generator(committees, 0)
         IN  IF generator = <<>> THEN [ok |-> FALSE, value |-> <<>>]
             ELSE [ok |-> TRUE, value |-> generator]

\* the match on ctx.step.to_step_name() of Phase::run; not ok is the panic
\* of expect("Proposal committee to be already generated")
Phase_exclusion(committees, step) ==
    IF to_step_name(step) = "Proposal" THEN [ok |-> TRUE, value |-> <<>>]
    ELSE LET iteration == from_step(step)
             generator == iter_get_generator(committees, iteration)
         IN  IF generator = <<>> THEN [ok |-> FALSE, value |-> <<>>]
             ELSE [ok |-> TRUE, value |-> generator]

\* Phase::run: the context afterwards, the result, the exclusion, the
\* committee and the context the step was run with (at_run)
Phase_run(committees, step, step_result) ==
    LET exclusion == Phase_exclusion(committees, step)
        step_committee == Committee_new(step, exclusion.value)
        saved == save_committee(committees, step, step_committee)
    IN  IF ~exclusion.ok
        THEN [committees |-> committees, res |-> "panic", exclusion |-> <<>>,
              committee |-> NoCommittee, at_run |-> <<>>]
        ELSE [committees |-> saved, res |-> step_result,
              exclusion |-> exclusion.value, committee |-> step_committee,
              at_run |-> <<saved>>]

NoPhaseCall ==
    [step |-> 255, res |-> "-", exclusion |-> <<>>, committee |-> NoCommittee,
     at_run |-> <<>>, before |-> [st \in PhaseSteps |-> NoCommittee]]

\* a round for which no committee has been generated yet
PhaseIdle ==
    /\ round_committees = [st \in PhaseSteps |-> NoCommittee]
    /\ phaseCall = NoPhaseCall

\* a call of Phase::run for a step; a panic ends the consensus task
PhaseRun ==
    /\ phaseCall.res # "panic"
    /\ \E step \in PhaseSteps, step_result \in {"Ok", "Err"} :
          LET r == Phase_run(round_committees, step, step_result)
          IN  /\ round_committees' = r.committees
              /\ phaseCall' = [step |-> step, res |-> r.res,
                               exclusion |-> r.exclusion,
                               committee |-> r.committee, at_run |-> r.at_run,
                               before |-> round_committees]
    /\ UNCHANGED <<regVars, consVars, fsmVars, hdrVars, mpVars, propVars>>

\* the components that are not part of a specification stay as they are
NodeIdle == HdrIdle /\ MpIdle /\ PhIdle /\ PhaseIdle

-----------------------------------------------------------------------------
(***************************************************************************)
(* Certificate registry: consensus/src/step_votes_reg.rs                   *)
(***************************************************************************)

\* node_data Vote: NoCandidate, Valid(hash), Invalid(hash)
NoCandidate == [tag |-> "NoCandidate", hash |-> "-"]
Valid(h) == [tag |-> "Valid", hash |-> h]
Invalid(h) == [tag |-> "Invalid", hash |-> h]
Votes == {NoCandidate, Valid("h1"), Invalid("h1")}

\* StepVotes: an aggregate signature and a bitset; "empty" is StepVotes::default()
EmptySv == "empty"
StepVotesSet == {EmptySv, "svA"}
sv_is_empty(sv) == sv = EmptySv

\* SvType
SvTypes == {"Validation", "Ratification"}

\* the generator key passed to add_step_votes: the validation and the
\* ratification handler each pass the generator of their own context, so calls
\* for one iteration need not agree on it
Generators == {"g1", "g2"}
GeneratorSeenBy(svt) == IF svt = "Validation" THEN "g1" ELSE "g2"
\* the u8 keys of cert_list the model calls the registry for, and the values of
\* `to` it asks nil certificates for
RegIterations == {0, 1}
NilTo == {0, 1, 2}


\* CertificateInfo::default()
DefaultCertInfo ==
    [vote |-> NoCandidate,
     validation |-> EmptySv,
     ratification |-> EmptySv,
     quorum_reached_validation |-> FALSE,
     quorum_reached_ratification |-> FALSE]

\* CertificateInfo::has_votes
has_votes(ci) ==
    ~sv_is_empty(ci.validation) /\ ~sv_is_empty(ci.ratification)

\* mutant of is_ready: the emptiness of the step-votes is not looked at
is_ready_flags_only(ci) ==
    ci.quorum_reached_validation /\ ci.quorum_reached_ratification

\* CertificateInfo::is_ready
is_ready(ci) ==
    has_votes(ci) /\ ci.quorum_reached_validation /\ ci.quorum_reached_ratification

\* mutant of add_sv: the flag is assigned quorum_reached unconditionally
add_sv_flag_assigned(ci, sv, svt, quorum_reached) ==
    IF svt = "Validation"
    THEN [ci EXCEPT !.validation = sv,
                    !.quorum_reached_validation = quorum_reached]
    ELSE [ci EXCEPT !.ratification = sv,
                    !.quorum_reached_ratification = quorum_reached]

\* mutant of add_sv: the step-votes are written only with a quorum
add_sv_quorum_only(ci, sv, svt, quorum_reached) ==
    IF ~quorum_reached THEN ci
    ELSE IF svt = "Validation"
    THEN [ci EXCEPT !.validation = sv, !.quorum_reached_validation = TRUE]
    ELSE [ci EXCEPT !.ratification = sv, !.quorum_reached_ratification = TRUE]

\* CertificateInfo::add_sv: the slot after the write (it returns is_ready of it)
add_sv(ci, sv, svt, quorum_reached) ==
    IF svt = "Validation"
    THEN [ci EXCEPT !.validation = sv,
                    !.quorum_reached_validation = IF quorum_reached THEN TRUE ELSE @]
    ELSE [ci EXCEPT !.ratification = sv,
                    !.quorum_reached_ratification = IF quorum_reached THEN TRUE ELSE @]

\* IterationCerts::new
NewIterationCerts(generator) ==
    [valid |-> None, nil |-> DefaultCertInfo, generator |-> generator]

\* mutant of for_vote: a different non-nil vote takes the valid slot over
for_vote_overwrite(entry, vote) ==
    IF vote = NoCandidate
    THEN [entry |-> entry, slot |-> "nil"]
    ELSE LET cert == IF entry.valid = None \/ entry.valid.vote # vote
                     THEN [DefaultCertInfo EXCEPT !.vote = vote]
                     ELSE entry.valid
         IN  [entry |-> [entry EXCEPT !.valid = cert], slot |-> "valid"]

\* IterationCerts::for_vote: the entry after get_or_insert_with, and the slot
\* selected ("nil", "valid") or "rejected"
for_vote(entry, vote) ==
    IF vote = NoCandidate
    THEN [entry |-> entry, slot |-> "nil"]
    ELSE LET cert == IF entry.valid = None
                     THEN [DefaultCertInfo EXCEPT !.vote = vote]
                     ELSE entry.valid
             e2 == [entry EXCEPT !.valid = cert]
         IN  [entry |-> e2, slot |-> IF cert.vote = vote THEN "valid" ELSE "rejected"]

\* CertInfoRegistry::build_quorum_msg (the signature is opaque)
build_quorum_msg(r, iteration, result) ==
    [kind |-> "quorum",
     round |-> r.round,
     prev_block_hash |-> r.hash,
     iteration |-> iteration,
     vote |-> result.vote,
     validation |-> result.validation,
     ratification |-> result.ratification,
     list |-> <<>>,
     err |-> FALSE]

NoMsg ==
    [kind |-> "none", round |-> 0, prev_block_hash |-> "-", iteration |-> 0,
     vote |-> NoCandidate, validation |-> EmptySv, ratification |-> EmptySv,
     list |-> <<>>, err |-> FALSE]

\* None returned after error!("Cannot add step votes for vote ...")
Rejected == [NoMsg EXCEPT !.err = TRUE]

\* CertInfoRegistry::add_step_votes: [cert_list, out]
add_step_votes(cl, r, iteration, vote, sv, svt, quorum_reached, generator) ==
    LET entry0 == IF cl[iteration] = None
                  THEN NewIterationCerts(generator)
                  ELSE cl[iteration]
        fv == for_vote(entry0, vote)
    IN  IF fv.slot = "rejected"
        THEN [cert_list |-> [cl EXCEPT ![iteration] = fv.entry], out |-> Rejected]
        ELSE LET ci == IF fv.slot = "nil" THEN fv.entry.nil ELSE fv.entry.valid
                 ci2 == add_sv(ci, sv, svt, quorum_reached)
                 e2 == IF fv.slot = "nil"
                       THEN [fv.entry EXCEPT !.nil = ci2]
                       ELSE [fv.entry EXCEPT !.valid = ci2]
             IN  [cert_list |-> [cl EXCEPT ![iteration] = e2],
                  out |-> IF is_ready(ci2)
                          THEN build_quorum_msg(r, iteration, ci2)
                          ELSE NoMsg]

\* the slot add_step_votes selects for a vote: "nil", "valid" or "rejected"
SlotFor(cl, iteration, vote, generator) ==
    for_vote(IF cl[iteration] = None THEN NewIterationCerts(generator)
             ELSE cl[iteration], vote).slot

\* one element of the vector get_nil_certificates returns
NilCertOf(cl, iteration) ==
    IF cl[iteration] # None /\ is_ready(cl[iteration].nil)
    THEN [some |-> TRUE,
          validation |-> cl[iteration].nil.validation,
          ratification |-> cl[iteration].nil.ratification,
          generator |-> cl[iteration].generator]
    ELSE [some |-> FALSE, validation |-> EmptySv, ratification |-> EmptySv,
          generator |-> "-"]

\* mutant of get_nil_certificates: the range of iterations is 0 ..= to
get_nil_certificates_inclusive(cl, to) ==
    [i \in 1 .. (to + 1) |->
        IF (i - 1) \in DOMAIN cl
        THEN NilCertOf(cl, i - 1)
        ELSE [some |-> FALSE, validation |-> EmptySv, ratification |-> EmptySv,
              generator |-> "-"]]

\* CertInfoRegistry::get_nil_certificates
get_nil_certificates(cl, to) ==
    [i \in 1 .. to |->
        IF (i - 1) \in DOMAIN cl
        THEN NilCertOf(cl, i - 1)
        ELSE [some |-> FALSE, validation |-> EmptySv, ratification |-> EmptySv,
              generator |-> "-"]]

NoCall ==
    [op |-> "none", iteration |-> 0, vote |-> NoCandidate, sv |-> EmptySv,
     svt |-> "Validation", quorum_reached |-> FALSE]

\* the registry before any call
RegIdle ==
    /\ ru = [round |-> 7, hash |-> "p1"]
    /\ cert_list = [i \in RegIterations |-> None]
    /\ regOut = NoMsg
    /\ regCalls = 0
    /\ regQuorums = [t \in RegIterations \X Votes |-> 0]
    /\ regQuorumSv = [t \in RegIterations \X {"nil", "valid"} \X SvTypes |-> {}]
    /\ regCall = NoCall

RegInit == RegIdle /\ ConsIdle /\ FsmIdle /\ NodeIdle

AddStepVotes(iteration, vote, sv, svt, quorum_reached, generator) ==
    /\ regCalls < MaxRegCalls
    /\ LET res == add_step_votes(cert_list, ru, iteration, vote, sv, svt,
                                 quorum_reached, generator)
       IN  /\ cert_list' = res.cert_list
           /\ regOut' = res.out
           /\ regQuorums' = IF res.out.kind = "quorum"
                             THEN [regQuorums EXCEPT ![<<iteration, res.out.vote>>] = @ + 1]
                             ELSE regQuorums
           /\ regQuorumSv' =
                 LET slot == SlotFor(cert_list, iteration, vote, generator)
                 IN  IF quorum_reached /\ slot # "rejected"
                     THEN [regQuorumSv EXCEPT ![<<iteration, slot, svt>>] = @ \cup {sv}]
                     ELSE regQuorumSv
    /\ regCalls' = regCalls + 1
    /\ regCall' = [op |-> "add_step_votes", iteration |-> iteration, vote |-> vote,
                   sv |-> sv, svt |-> svt, quorum_reached |-> quorum_reached]
    /\ UNCHANGED <<ru, consVars, fsmVars, nodeVars>>

GetNilCertificates(to) ==
    /\ regCalls < MaxRegCalls
    /\ regOut' = [NoMsg EXCEPT !.kind = "nil_certs",
                               !.list = get_nil_certificates(cert_list, to)]
    /\ regCalls' = regCalls + 1
    /\ regCall' = [NoCall EXCEPT !.op = "get_nil_certificates", !.iteration = to]
    /\ UNCHANGED <<ru, cert_list, regQuorums, regQuorumSv, consVars, fsmVars, nodeVars>>

RegAdd ==
    \E iteration \in RegIterations, vote \in Votes, sv \in StepVotesSet,
       svt \in SvTypes, quorum_reached \in BOOLEAN :
        AddStepVotes(iteration, vote, sv, svt, quorum_reached, GeneratorSeenBy(svt))

RegGetNil == \E to \in NilTo : GetNilCertificates(to)

NextReg == RegAdd \/ RegGetNil

\* the registry of one iteration fed with step-votes that can be told apart
StepVotesAB == StepVotesSet \cup {"svB"}
RegAddSv ==
    \E vote \in {NoCandidate, Valid("h1")}, sv \in StepVotesAB,
       svt \in SvTypes, quorum_reached \in BOOLEAN :
        AddStepVotes(0, vote, sv, svt, quorum_reached, GeneratorSeenBy(svt))

NextRegSv == RegAddSv

SpecRegSv == RegInit /\ [][NextRegSv]_vars

SpecReg == RegInit /\ [][NextReg]_vars

-----------------------------------------------------------------------------
(***************************************************************************)
(* Specification of the iteration counter and the vote-cast tasks          *)
(***************************************************************************)

ConsInit == ConsIdle /\ RegIdle /\ FsmIdle /\ NodeIdle

ConsIterNext == IterNext /\ UNCHANGED <<regVars, fsmVars, nodeVars>>
ConsSpawn ==
    \E t \in Tasks, c \in Candidates : SpawnCastVote(t, c) /\ UNCHANGED <<regVars, fsmVars, nodeVars>>
ConsReadVerified == \E t \in Tasks : ReadVerified(t) /\ UNCHANGED <<regVars, fsmVars, nodeVars>>
ConsDecode ==
    \E t \in Tasks, decoded \in BOOLEAN : DecodeGenerator(t, decoded) /\ UNCHANGED <<regVars, fsmVars, nodeVars>>
ConsLockExecutor == \E t \in Tasks : LockExecutor(t) /\ UNCHANGED <<regVars, fsmVars, nodeVars>>
ConsVstReturn ==
    \E t \in Tasks, out \in VstOutputs : VstReturn(t, out) /\ UNCHANGED <<regVars, fsmVars, nodeVars>>
ConsStoreVerified == \E t \in Tasks : StoreVerified(t) /\ UNCHANGED <<regVars, fsmVars, nodeVars>>
ConsPublish == \E t \in Tasks : Publish(t) /\ UNCHANGED <<regVars, fsmVars, nodeVars>>
ConsRegister == \E t \in Tasks : Register(t) /\ UNCHANGED <<regVars, fsmVars, nodeVars>>

NextCons ==
    \/ ConsIterNext
    \/ ConsSpawn
    \/ ConsReadVerified
    \/ ConsDecode
    \/ ConsLockExecutor
    \/ ConsVstReturn
    \/ ConsStoreVerified
    \/ ConsPublish
    \/ ConsRegister

SpecCons == ConsInit /\ [][NextCons]_vars

-----------------------------------------------------------------------------
(***************************************************************************)
(* Specification of the chain FSM                                          *)
(***************************************************************************)

InitFsm == FsmInit /\ RegIdle /\ ConsIdle /\ NodeIdle

NextFsm == FsmBlockEvent \/ OnHeartbeatEvent

InitSync == SyncInit /\ RegIdle /\ ConsIdle /\ NodeIdle

NextSync == SyncBlockEvent \/ SyncHeartbeat

SpecSync == InitSync /\ [][NextSync]_vars

NextQuorum == OnQuorumMsg \/ CandidateBlockEvent

SpecQuorum == InitFsm /\ [][NextQuorum]_vars

SpecFsm == InitFsm /\ [][NextFsm]_vars

-----------------------------------------------------------------------------
(***************************************************************************)
(* Specification of the header validator                                   *)
(***************************************************************************)
NextHdr == VerifyBasicFields \/ VerifyFailedIterations \/ ExecuteChecks

InitHdr == HdrInit /\ RegIdle /\ ConsIdle /\ FsmIdle /\ MpIdle /\ PhIdle /\ PhaseIdle

SpecHdr == InitHdr /\ [][NextHdr]_vars

-----------------------------------------------------------------------------
(***************************************************************************)
(* Specification of the mempool service                                    *)
(***************************************************************************)
NextMp == MpOnIdle \/ MpRecv \/ MpInbound \/ MpSecond \/ MpInterval

InitMp == MpInit /\ RegIdle /\ ConsIdle /\ FsmIdle /\ HdrIdle /\ PhIdle /\ PhaseIdle

SpecMp == InitMp /\ [][NextMp]_vars

-----------------------------------------------------------------------------
(***************************************************************************)
(* Specification of the proposal handler                                   *)
(***************************************************************************)
NextProp == PhVerify \/ PhCollect \/ PhCollectFromPast \/ PhHandleTimeout

InitProp == PhIdle /\ RegIdle /\ ConsIdle /\ FsmIdle /\ HdrIdle /\ MpIdle /\ PhaseIdle

SpecProp == InitProp /\ [][NextProp]_vars

-----------------------------------------------------------------------------
(***************************************************************************)
(* Specification of the phase                                              *)
(***************************************************************************)
NextPhase == PhaseRun

InitPhase == PhaseIdle /\ RegIdle /\ ConsIdle /\ FsmIdle /\ HdrIdle /\ MpIdle /\ PhIdle

SpecPhase == InitPhase /\ [][NextPhase]_vars

-----------------------------------------------------------------------------
(***************************************************************************)
(* Properties of the certificate registry                                  *)
(***************************************************************************)

\* the slot of an entry a vote selects (nil for NoCandidate, valid otherwise)
SlotOf(entry, vote) == IF vote = NoCandidate THEN entry.nil ELSE entry.valid

\* C1 (as stated): for a fixed round and iteration a Quorum message is returned
\* at most once per vote target: a call never returns a Quorum for a target
\* that an earlier call already returned one for.
C1_QuorumAtMostOnce ==
    [][regOut'.kind = "quorum"
          => regQuorums[<<regOut'.iteration, regOut'.vote>>] = 0]_vars

\* C1 (amended): a call returns a Quorum only for its own target; once a call
\* has returned a Quorum for a target, both quorum flags of its slot stay set,
\* and every later call for the same iteration and target returns another
\* Quorum exactly when it leaves both step-votes of the slot non-empty.
C1_QuorumRepeats ==
    [][regCall'.op = "add_step_votes" =>
          LET iteration == regCall'.iteration
              vote == regCall'.vote
          IN  /\ regOut'.kind = "quorum" =>
                    /\ regOut'.iteration = iteration
                    /\ regOut'.vote = vote
              /\ regQuorums[<<iteration, vote>>] > 0 =>
                    LET old == SlotOf(cert_list[iteration], vote)
                        new == SlotOf(cert_list'[iteration], vote)
                    IN  /\ new.quorum_reached_validation
                        /\ new.quorum_reached_ratification
                        /\ (regOut'.kind = "quorum") <=>
                              /\ regCall'.sv # EmptySv
                              /\ IF regCall'.svt = "Validation"
                                 THEN old.ratification # EmptySv
                                 ELSE old.validation # EmptySv]_vars

\* C1 witness: a second Quorum has been returned for the same target
C1_Witness ==
    /\ regOut.kind = "quorum"
    /\ regQuorums[<<regOut.iteration, regOut.vote>>] >= 2

\* C2: the valid slot of an iteration is bound to the first non-NoCandidate
\* vote; a later call with a different non-NoCandidate vote returns nothing and
\* leaves the valid slot (vote, step-votes, flags) unchanged; NoCandidate votes
\* go to the nil slot and never create or change the valid slot.
C2_ValidSlotBoundToFirstVote ==
    [][regCall'.op = "add_step_votes" =>
          LET iteration == regCall'.iteration
              vote == regCall'.vote
              had == cert_list[iteration] # None
              oldValid == IF had THEN cert_list[iteration].valid ELSE None
              newValid == cert_list'[iteration].valid
          IN  /\ vote = NoCandidate => newValid = oldValid
              /\ (vote # NoCandidate /\ oldValid = None) =>
                    /\ newValid # None
                    /\ newValid.vote = vote
              /\ (vote # NoCandidate /\ oldValid # None) =>
                    /\ newValid.vote = oldValid.vote
                    /\ oldValid.vote # vote =>
                          /\ regOut'.kind = "none"
                          /\ newValid = oldValid
                          /\ cert_list'[iteration].nil = cert_list[iteration].nil]_vars

\* C2 witness: a call for a second, different non-nil vote has been rejected
\* while the valid slot holds the step-votes of the first one
C2_Witness ==
    /\ regCall.op = "add_step_votes"
    /\ regCall.vote # NoCandidate
    /\ regCall.sv # EmptySv
    /\ regOut.err
    /\ cert_list[regCall.iteration].valid.vote # regCall.vote
    /\ cert_list[regCall.iteration].valid.validation # EmptySv

\* C3: add_step_votes writes the step-votes into the validation or the
\* ratification field of the selected slot, sets the matching quorum flag only
\* when quorum_reached, and returns a Quorum exactly when afterwards both flags
\* are set and both fields non-empty; the message carries the slot's vote and
\* step-votes and the round, iteration and previous-block hash of the
\* RoundUpdate; otherwise it returns nothing.
C3_AddStepVotesResult ==
    [][regCall'.op = "add_step_votes" =>
          LET iteration == regCall'.iteration
              vote == regCall'.vote
              sv == regCall'.sv
              svt == regCall'.svt
              quorum_reached == regCall'.quorum_reached
              had == cert_list[iteration] # None
              fresh == [vote |-> vote, validation |-> EmptySv,
                        ratification |-> EmptySv,
                        quorum_reached_validation |-> FALSE,
                        quorum_reached_ratification |-> FALSE]
              old == IF had /\ SlotOf(cert_list[iteration], vote) # None
                     THEN SlotOf(cert_list[iteration], vote)
                     ELSE fresh
              selected == old.vote = vote
              new == SlotOf(cert_list'[iteration], vote)
              ready == /\ new.quorum_reached_validation
                       /\ new.quorum_reached_ratification
                       /\ new.validation # EmptySv
                       /\ new.ratification # EmptySv
          IN  IF ~selected
              THEN regOut'.kind = "none"
              ELSE /\ new.vote = old.vote
                   /\ svt = "Validation" =>
                         /\ new.validation = sv
                         /\ new.ratification = old.ratification
                         /\ new.quorum_reached_validation =
                               (old.quorum_reached_validation \/ quorum_reached)
                         /\ new.quorum_reached_ratification =
                               old.quorum_reached_ratification
                   /\ svt = "Ratification" =>
                         /\ new.ratification = sv
                         /\ new.validation = old.validation
                         /\ new.quorum_reached_ratification =
                               (old.quorum_reached_ratification \/ quorum_reached)
                         /\ new.quorum_reached_validation =
                               old.quorum_reached_validation
                   /\ (regOut'.kind = "quorum") <=> ready
                   /\ ~ready => regOut'.kind = "none"
                   /\ ready =>
                         /\ regOut'.vote = new.vote
                         /\ regOut'.validation = new.validation
                         /\ regOut'.ratification = new.ratification
                         /\ regOut'.round = ru.round
                         /\ regOut'.iteration = iteration
                         /\ regOut'.prev_block_hash = ru.hash]_vars

\* C3 witness: a Quorum has been returned for the valid slot of iteration 1
\* by a ratification call
C3_Witness ==
    /\ regCall.op = "add_step_votes"
    /\ regCall.svt = "Ratification"
    /\ regCall.iteration = 1
    /\ regOut.kind = "quorum"
    /\ regOut.iteration = 1
    /\ regOut.vote # NoCandidate
    /\ is_ready(cert_list[1].valid)

\* C4: get_nil_certificates(to) returns exactly `to` entries, entry i for
\* iteration i; entry i is present iff iteration i has a registry entry whose
\* nil slot is ready, and then holds the nil slot's certificate and the
\* generator recorded when the entry was created (later calls never change
\* it); the valid slot never contributes and the registry is left unchanged.
C4_NilCertificates ==
    [][/\ regCall'.op = "get_nil_certificates" =>
             LET to == regCall'.iteration
             IN  /\ cert_list' = cert_list
                 /\ Len(regOut'.list) = to
                 /\ \A i \in 0 .. (to - 1) :
                       LET e == regOut'.list[i + 1]
                           present ==
                              /\ i \in DOMAIN cert_list
                              /\ cert_list[i] # None
                              /\ cert_list[i].nil.quorum_reached_validation
                              /\ cert_list[i].nil.quorum_reached_ratification
                              /\ cert_list[i].nil.validation # EmptySv
                              /\ cert_list[i].nil.ratification # EmptySv
                       IN  /\ e.some <=> present
                           /\ present =>
                                 /\ e.validation = cert_list[i].nil.validation
                                 /\ e.ratification = cert_list[i].nil.ratification
                                 /\ e.generator = cert_list[i].generator
       /\ regCall'.op = "add_step_votes" =>
             /\ cert_list[regCall'.iteration] # None =>
                   cert_list'[regCall'.iteration].generator =
                      cert_list[regCall'.iteration].generator
             /\ cert_list[regCall'.iteration] = None =>
                   cert_list'[regCall'.iteration].generator =
                      GeneratorSeenBy(regCall'.svt)]_vars

\* C4 witness: nil certificates were asked up to 2 while iteration 0 has a
\* ready nil slot (present, with the generator of the creating validation
\* call, not that of the later ratification call) and iteration 1 has none
C4_Witness ==
    /\ regCall.op = "get_nil_certificates"
    /\ regCall.iteration = 2
    /\ Len(regOut.list) = 2
    /\ regOut.list[1].some
    /\ regOut.list[1].generator = GeneratorSeenBy("Validation")
    /\ ~regOut.list[2].some
    /\ cert_list[0] # None
    /\ is_ready(cert_list[0].nil)

-----------------------------------------------------------------------------
(***************************************************************************)
(* Properties of the vote-cast task and the iteration counter              *)
(***************************************************************************)

\* the vote of task t is in queue q
VoteIn(q, t) == \E k \in 1 .. Len(q) : q[k].from = t

\* C5 (as stated): a vote-cast task for a candidate with a non-zero hash whose
\* VST call returned an error, or an event_hash or state_root different from
\* the candidate header's, still casts a vote: once the task has ended, a vote
\* message of it is on the outbound and on the inbound queue, and it is not a
\* vote for the candidate hash.
C5_VstFailureCastsNoCandidate ==
    \A t \in Tasks :
        (/\ task[t].pc = "done"
         /\ task[t].candidate.hash # ZeroHash
         /\ task[t].vst \in {"vst_error", "event_hash_mismatch", "state_hash_mismatch"})
        => /\ VoteIn(outbound, t)
           /\ VoteIn(inbound, t)
           /\ \A k \in 1 .. Len(outbound) :
                 outbound[k].from = t => outbound[k].block_hash = ZeroHash

\* C6: next() advances iteration i to i+1 and returns it when
\* i+1 < CONSENSUS_MAX_ITER; otherwise it returns MaxIterationReached and
\* leaves the counter unchanged; the counter, starting from 0, never holds a
\* value >= CONSENSUS_MAX_ITER.
C6_IterNext ==
    /\ [](iter < CONSENSUS_MAX_ITER)
    /\ [][<<iter, iterRet>>' # <<iter, iterRet>> =>
             IF iter + 1 < CONSENSUS_MAX_ITER
             THEN /\ iter' = iter + 1
                  /\ iterRet' = [ok |-> TRUE, value |-> iter + 1]
             ELSE /\ iter' = iter
                  /\ ~iterRet'.ok]_vars

\* C6 witness: iteration CONSENSUS_MAX_ITER - 1 runs and next() has failed there
C6_Witness ==
    /\ iter = CONSENSUS_MAX_ITER - 1
    /\ ~iterRet.ok

-----------------------------------------------------------------------------
(***************************************************************************)
(* Properties of the chain FSM                                             *)
(***************************************************************************)

\* the tip recorded in a snapshot
TipOf(snap) == snap.chain[Len(snap.chain)]

\* the two parts of the last block event that can run a fallback
Parts == {fsmCall.fsm, fsmCall.stall}

\* C7 (as stated): after every fallback whose revert step returned success,
\* the local tip is the remote block and the blacklist contains the hash of
\* the local block that the fallback replaced.
C7_FallbackReplacesTip ==
    \A part \in Parts :
        part.revert = "ok" =>
            /\ TipOf(part.after) = part.remote
            /\ part.local \in part.after.blacklist

\* C8 (as stated): in InSync, for a remote block below the tip, a fallback is
\* attempted iff the block is not in the ledger, its height is above the last
\* finalized height, its previous block is known and the local block M at
\* the height after that previous block has a greater iteration; when the
\* revert succeeds the state is the previous block's, the remote block is
\* accepted and M's hash is in the blacklist.
C8_LowerFallback ==
    [][(/\ fsmCall'.op = "on_block_event"
        /\ fsmCall'.fsm.branch \in {"lower", "lower_exists", "lower_final"})
       => LET blk == HeaderOf(fsmCall'.blk)
              prev == fetch_block_header(Node, blk.prev_block_hash)
              M == IF prev = None THEN None
                   ELSE fetch_block_by_height(Node, prev.height + 1)
              attempted == fsmCall'.fsm.revert # "none"
              log == fsmCall'.fsm
          IN  /\ attempted <=>
                   /\ ~get_block_exists(Node, blk.hash)
                   /\ blk.height > acc.final
                   /\ prev # None
                   /\ M # None
                   /\ M.iteration > blk.iteration
              /\ log.revert = "ok" =>
                   /\ log.reverted = prev.height
                   /\ Len(log.accepts) = 1 /\ log.accepts[1].ok
                   /\ TipOf(log.after) = blk.hash
                   /\ M.hash \in log.after.blacklist]_vars

\* C9 (as stated): in InSync, for a remote block at the tip height with a
\* different hash, a fallback is run; when it succeeds the old tip hash is
\* blacklisted, and the remote block is accepted with the FSM in InSync if
\* its height is the new tip height + 1, otherwise the FSM is OutOfSync with
\* the remote block as target and the sender as sync peer.
C9_EqualHeightFallback ==
    fsmCall.fsm.branch \in {"equal", "equal_no_prev"} =>
        LET log == fsmCall.fsm
            blk == HeaderOf(fsmCall.blk)
        IN  /\ log.revert # "none"
            /\ log.revert = "ok" =>
                 /\ log.local \in log.after.blacklist
                 /\ IF blk.height = log.reverted + 1
                    THEN /\ TipOf(log.after) = blk.hash
                         /\ log.after.state = "InSync"
                    ELSE /\ log.after.state = "OutOfSync"
                         /\ curr.pool = {blk.hash}
                         /\ curr.peer_addr = fsmCall.md

\* C9 (amended): in InSync, for a remote block at the tip height with a
\* different hash: when its previous block is not in the ledger the event
\* fails and nothing is reverted; otherwise a fallback is run, and when its
\* revert succeeds the old tip hash is blacklisted and then
\*  - if the remote height is the new tip height + 1, the remote block is
\*    handed to the acceptor and the FSM stays InSync: on success the tip is
\*    the remote block, on failure the event fails with the tip reverted;
\*  - otherwise nothing is accepted, and the FSM transitions to OutOfSync
\*    with the remote block as target and the sender as sync peer when the
\*    event carries peer metadata, and stays InSync when it carries none.
C9_EqualHeightFallbackAmended ==
    LET log == fsmCall.fsm
        blk == HeaderOf(fsmCall.blk)
    IN  /\ log.branch = "equal_no_prev" =>
              /\ fsmCall.err
              /\ log.revert = "none"
              /\ log.after = log.pre
        /\ log.branch = "equal" =>
              /\ log.revert # "none"
              /\ log.revert = "ok" =>
                   /\ log.local = TipOf(log.pre)
                   /\ log.local \in log.after.blacklist
                   /\ IF blk.height = log.reverted + 1
                      THEN /\ Len(log.accepts) = 1
                           /\ log.accepts[1].hash = blk.hash
                           /\ log.after.state = "InSync"
                           /\ IF log.accepts[1].ok
                              THEN TipOf(log.after) = blk.hash /\ ~fsmCall.err
                              ELSE /\ fsmCall.err
                                   /\ Len(log.after.chain) = log.reverted + 1
                      ELSE /\ log.accepts = <<>>
                           /\ Len(log.after.chain) = log.reverted + 1
                           /\ IF fsmCall.md # NoMetadata
                              THEN /\ log.after.state = "OutOfSync"
                                   /\ curr.pool = {blk.hash}
                                   /\ curr.peer_addr = fsmCall.md
                              ELSE log.after.state = "InSync"

\* C9 witness: a fallback at the tip height succeeded for a block that is not
\* at the new tip height + 1 and came without peer metadata
C9_Witness ==
    /\ fsmCall.fsm.branch = "equal"
    /\ fsmCall.fsm.revert = "ok"
    /\ HeaderOf(fsmCall.blk).height # fsmCall.fsm.reverted + 1
    /\ fsmCall.md = NoMetadata
    /\ curr.state = "InSync"

\* C10: when the revert step of a fallback fails, in either InSync branch or
\* in the stalled-on-fork recovery, the attempt ends with the tip, the
\* ledger, the FSM state and the blacklist as they were when it started,
\* and no block is handed to the acceptor.
C10_RevertFailureLeavesState ==
    /\ \A part \in Parts :
          part.revert = "err" =>
              /\ part.after = part.pre
              /\ part.accepts = <<>>
    /\ fsmCall.stall.revert = "err" =>
          /\ Snap(Node) = fsmCall.stall.pre
          /\ fsmCall.ret = "-"
          /\ ~fsmCall.err

\* C10 witness: in one block event the revert of the InSync fallback and the
\* revert of the stalled-on-fork recovery have both failed
C10_Witness ==
    /\ fsmCall.fsm.revert = "err"
    /\ fsmCall.stall.revert = "err"

\* ---- block events by what the node was when they arrived ----
Before == fsmCall.before
Blk == HeaderOf(fsmCall.blk)
BlockEvent == fsmCall.op = "on_block_event"
\* the block passed the blacklist and carried or was given an attestation
Processed ==
    /\ BlockEvent
    /\ Blk.hash \notin Before.blacklisted_blocks
    /\ fsmCall.att \/ cache_contains_key(Before.attestations_cache, Blk.hash)
InSyncEvent == Processed /\ Before.curr.state = "InSync"
OutOfSyncEvent == Processed /\ Before.curr.state = "OutOfSync"
\* the block is the tip, or is below the tip and in the ledger
DuplicateEvent ==
    /\ InSyncEvent
    /\ \/ Blk.hash = get_curr_hash(Before)
       \/ Blk.height < get_curr_height(Before) /\ get_block_exists(Before, Blk.hash)
\* the parts of the node the last handler left different from what it found
ChangedNow == Changed(Before, Node)

\* C11 (as stated): a duplicate block in InSync triggers no revert and no
\* accept, and the event leaves the tip, the ledger, the blacklist, the
\* presync record and the InSync state unchanged.
C11_DuplicateIsNoOp ==
    DuplicateEvent =>
        /\ \A part \in Parts : part.revert = "none" /\ part.accepts = <<>>
        /\ acc = Before.acc
        /\ blacklisted_blocks = Before.blacklisted_blocks
        /\ curr = Before.curr

\* C11 (amended): for a duplicate block in InSync the InSync handler runs no
\* revert and no accept and returns with the tip, the ledger, the blacklist,
\* the presync record and the InSync state unchanged, and sends nothing;
\* the stall detector's step of the same event leaves all of them unchanged
\* while the detector reports Running, empties the blacklist and nothing
\* else when it reports Stalled, and runs the stalled-on-fork recovery when
\* it reports StalledOnFork.
C11_DuplicateAmended ==
    DuplicateEvent =>
        /\ fsmCall.fsm.revert = "none" /\ fsmCall.fsm.accepts = <<>>
        /\ fsmCall.fsm.after = Snap(Before)
        /\ curr = Before.curr
        /\ effects = <<>>
        /\ fsmCall.stall.branch \in {"running", "stalled", "stalled_on_fork"}
        /\ fsmCall.stall.branch = "running" => ChangedNow \subseteq {"stalled_sm"}
        /\ fsmCall.stall.branch = "stalled" =>
              /\ ChangedNow \subseteq {"stalled_sm", "blacklisted_blocks"}
              /\ blacklisted_blocks = {}

\* C11 witness: a duplicate of the tip arrived in InSync with a block in the
\* blacklist, and the event emptied the blacklist
C11_Witness ==
    /\ DuplicateEvent
    /\ Blk.hash = get_curr_hash(Before)
    /\ Before.blacklisted_blocks # {}
    /\ blacklisted_blocks = {}

\* C12: a block whose hash is in the blacklist is dropped before anything
\* else, in InSync and in OutOfSync: the event returns no block and no
\* error, hands nothing to the acceptor, sends nothing, and leaves the
\* ledger, the FSM state with its presync record, pool and timer, the
\* attestation cache, the blacklist and the stall detector as they were.
C12_BlacklistedDropped ==
    (BlockEvent /\ Blk.hash \in Before.blacklisted_blocks) =>
        /\ fsmCall.ret = "-" /\ ~fsmCall.err
        /\ \A part \in Parts : part.revert = "none" /\ part.accepts = <<>>
        /\ Node = Before

\* C12 witness: a blacklisted block arrived in OutOfSync after the sync timer
\* had expired
C12_Witness ==
    /\ BlockEvent
    /\ Blk.hash \in Before.blacklisted_blocks
    /\ Before.curr.state = "OutOfSync"
    /\ Expired(Before)

\* C13: in InSync a block at tip height + 1 is handed to the acceptor, once.
\* When the accept succeeds, the InSync handler returns with the block as
\* tip: the blacklist is emptied if finalization was
\* reported and unchanged otherwise, and the FSM transitions to OutOfSync
\* exactly when the event carries metadata, a presync record exists, the
\* sender is the presync peer and the height is the presync start height + 1;
\* the sync target is then the recorded future block and the sync peer the
\* presync peer, and no presync record is left.  When the accept fails the
\* event fails, the FSM stays InSync and the blacklist is unchanged.
C13_NextBlock ==
    (InSyncEvent /\ Blk.height = get_curr_height(Before) + 1) =>
        LET log == fsmCall.fsm
            presync == Before.curr.presync
            toSync == /\ fsmCall.md # NoMetadata
                      /\ presync # NoPresync
                      /\ fsmCall.md = presync.peer_addr
                      /\ Blk.height = presync.start_height + 1
        IN  /\ Len(log.accepts) = 1
            /\ log.accepts[1].hash = Blk.hash
            /\ log.accepts[1].tip_height = get_curr_height(Before)
            /\ IF log.accepts[1].ok
               THEN /\ fsmCall.stall.branch # "stalled_on_fork" =>
                         ~fsmCall.err /\ fsmCall.ret = Blk.hash
                    /\ TipOf(log.after) = Blk.hash
                    /\ log.after.blacklist =
                         IF log.accepts[1].finalized THEN {}
                         ELSE Before.blacklisted_blocks
                    /\ curr.state = "OutOfSync" <=> toSync
                    /\ IF toSync
                       THEN /\ curr.pool = {presync.target_blk}
                            /\ curr.peer_addr = presync.peer_addr
                            /\ curr.presync = NoPresync
                       ELSE curr = Before.curr
               ELSE /\ fsmCall.err
                    /\ Node = Before

\* C13 witness: the block after the presync start height arrived from the
\* presync peer, was accepted with finalization while the blacklist held a
\* block, and the FSM went OutOfSync
C13_Witness ==
    /\ InSyncEvent
    /\ Blk.height = get_curr_height(Before) + 1
    /\ fsmCall.fsm.accepts[1].finalized
    /\ Before.blacklisted_blocks # {}
    /\ curr.state = "OutOfSync"

\* a block above tip height + 1 arrived in InSync
FutureEvent == InSyncEvent /\ Blk.height > get_curr_height(Before) + 1

\* C14 (as stated): in InSync a block above tip height + 1 never changes the
\* tip and never makes the FSM leave InSync; when the event carries metadata
\* a PresyncInfo with the sender as peer, that block as target and the tip
\* height as start height is recorded, expiring 10 s later, and a request
\* for the block at tip height + 1 is sent to the sender.
C14_FutureBlock ==
    FutureEvent =>
        LET L == get_curr_height(Before)
        IN  /\ fsmCall.fsm.after = Snap(Before)
            /\ curr.state = "InSync"
            /\ fsmCall.md # NoMetadata =>
                  /\ curr.presync = PresyncInfoNew(fsmCall.md, Blk, L)
                  /\ effects = <<RequestBlockByHeight(L + 1, fsmCall.md)>>

\* C14 (amended): in InSync a block above tip height + 1 makes the InSync
\* handler hand nothing to the acceptor and return with the tip, the ledger
\* and the blacklist unchanged, and the FSM stays InSync.  When the event
\* carries metadata, a request for the block at tip height + 1 is sent to
\* the sender, and a PresyncInfo (sender, that block, tip height, expiring
\* 10 s later) is recorded only if no presync record exists: a record that
\* exists is kept as it is.  Without metadata nothing is recorded or sent.
C14_FutureBlockAmended ==
    FutureEvent =>
        LET L == get_curr_height(Before)
            old == Before.curr.presync
        IN  /\ fsmCall.fsm.after = Snap(Before)
            /\ fsmCall.fsm.accepts = <<>> /\ fsmCall.fsm.revert = "none"
            /\ curr.state = "InSync"
            /\ IF fsmCall.md # NoMetadata
               THEN /\ curr.presync = IF old = NoPresync
                                      THEN PresyncInfoNew(fsmCall.md, Blk, L) ELSE old
                    /\ curr.presync.age < DEFAULT_TIMEOUT \/ old # NoPresync
                    /\ effects = <<RequestBlockByHeight(L + 1, fsmCall.md)>>
               ELSE curr = Before.curr /\ effects = <<>>

\* C14 witness: a future block arrived from a peer while a presync record
\* for another peer existed
C14_Witness ==
    /\ FutureEvent
    /\ fsmCall.md # NoMetadata
    /\ Before.curr.presync # NoPresync
    /\ Before.curr.presync.peer_addr # fsmCall.md
    /\ curr.presync = Before.curr.presync

\* ---- bulk sync ----
HeightOf(snap) == Len(snap.chain) - 1
\* every block handed to the acceptor by the last state handler was accepted
AllAccepted == \A i \in 1 .. Len(fsmCall.fsm.accepts) : fsmCall.fsm.accepts[i].ok
\* the last event made the FSM enter OutOfSync
Entered == BlockEvent /\ Before.curr.state = "InSync" /\ curr.state = "OutOfSync"
\* a block event found the FSM in OutOfSync with the sync timer running
InTimeEvent == OutOfSyncEvent /\ ~Expired(Before)
\* the block was at tip height + 1, it and the pooled blocks that follow it
\* were accepted, and the tip is at or above the end of the window
Reached ==
    /\ Blk.height = get_curr_height(Before) + 1
    /\ AllAccepted
    /\ HeightOf(fsmCall.fsm.after) >= Before.curr.range[2]

\* C15: when the FSM enters OutOfSync with tip height L, the pool holds the
\* sync target alone, the window ends at min(L + MAX_BLOCKS_TO_REQUEST,
\* target height), three attempts are left, the timer starts, and a
\* GetBlocks with the tip hash as locator was sent to the sync peer.  While
\* the timer has not expired, a block event restarts consensus and returns
\* the FSM to InSync exactly when the block is at tip height + 1 and, after
\* it and the pooled blocks at the heights that follow (up to the end of the
\* window, stopping at the first missing height) were accepted, the tip is
\* at or above the end of the window.
C15_SyncWindow ==
    /\ Entered =>
          LET L == HeightOf(fsmCall.fsm.after)
          IN  /\ Cardinality(curr.pool) = 1
              /\ \A t \in curr.pool :
                    curr.range = <<L, Min(L + MAX_BLOCKS_TO_REQUEST, HeaderOf(t).height)>>
              /\ curr.attempts = 3 /\ curr.since = 0
              /\ effects = <<GetBlocks(TipOf(fsmCall.fsm.after), curr.peer_addr)>>
    /\ InTimeEvent =>
          LET log == fsmCall.fsm
          IN  /\ curr.state = "InSync" <=> Reached
              /\ (RestartConsensus \in {effects[i] : i \in 1 .. Len(effects)}) <=> Reached
              /\ Blk.height = get_curr_height(Before) + 1 =>
                    /\ Len(log.accepts) >= 1
                    /\ \A i \in 1 .. Len(log.accepts) :
                          /\ HeaderOf(log.accepts[i].hash).height = Blk.height + i - 1
                          /\ i = 1 => log.accepts[i].hash = Blk.hash
                          /\ i > 1 => /\ log.accepts[i].hash \in Before.curr.pool
                                      /\ Blk.height + i - 1 <= Before.curr.range[2]
                    /\ AllAccepted =>
                          LET after == Blk.height + Len(log.accepts)
                          IN  \/ after > Before.curr.range[2]
                              \/ pool_get(Before.curr.pool, after) = None
              /\ Blk.height # get_curr_height(Before) + 1 => log.accepts = <<>>

\* C15 witness: in OutOfSync the block at tip height + 1 arrived in time,
\* it and a pooled block were accepted, and the FSM returned to InSync
C15_Witness ==
    /\ InTimeEvent
    /\ Reached
    /\ Len(fsmCall.fsm.accepts) >= 2
    /\ curr.state = "InSync"

\* C18: the OutOfSync pool never holds more than MAX_BLOCKS_TO_REQUEST
\* blocks nor two blocks of one height; a block above tip height + 1 that
\* arrives in time is stored (in place of a pooled block of its height) when
\* the pool holds fewer, and is not stored when the pool is full; outside
\* OutOfSync the pool is empty.
C18_PoolBound ==
    /\ Cardinality(curr.pool) <= MAX_BLOCKS_TO_REQUEST
    /\ \A x, y \in curr.pool : HeaderOf(x).height = HeaderOf(y).height => x = y
    /\ curr.state # "OutOfSync" => curr.pool = {}
    /\ (InTimeEvent /\ Blk.height > get_curr_height(Before) + 1) =>
          IF Cardinality(Before.curr.pool) < MAX_BLOCKS_TO_REQUEST
          THEN curr.pool = {h \in Before.curr.pool : HeaderOf(h).height # Blk.height}
                           \cup {Blk.hash}
          ELSE curr.pool = Before.curr.pool

\* C18 witness: a block above tip height + 1 that is not in the pool arrived
\* while the pool was full, and was not stored
C18_Witness ==
    /\ InTimeEvent
    /\ Blk.height > get_curr_height(Before) + 1
    /\ Cardinality(Before.curr.pool) = MAX_BLOCKS_TO_REQUEST
    /\ Blk.hash \notin curr.pool
    /\ curr.state = "OutOfSync"

\* the sync target, pooled when OutOfSync was entered, is above the window
TargetBeyondWindow ==
    \E t \in Before.curr.pool : HeaderOf(t).height > Before.curr.range[2]

\* C16 (as stated): in a bulk sync whose target is above the window, when
\* the tip reaches the end of the window the FSM stays in OutOfSync and
\* requests the next window.
C16_NextWindowRequested ==
    (InTimeEvent /\ Reached /\ TargetBeyondWindow) =>
        /\ curr.state = "OutOfSync"
        /\ \E i \in 1 .. Len(effects) : effects[i].call \in {"send_to_peer", "flood_request"}

\* C16 (amended): in a bulk sync whose target is above the window, when the
\* tip reaches the end of the window the FSM restarts consensus and returns
\* to InSync with an empty pool and no presync record, and requests nothing:
\* the blocks up to the target are not asked for by this sync.
C16_WindowEndReturnsInSync ==
    (InTimeEvent /\ Reached /\ TargetBeyondWindow) =>
        /\ curr = InSyncNew
        /\ effects = <<RestartConsensus>>
        /\ HeightOf(fsmCall.fsm.after) = Before.curr.range[2]
        /\ \A t \in Before.curr.pool :
              HeaderOf(t).height > Before.curr.range[2] =>
                  ~get_block_exists(Node, t)

\* C16 witness: the sync started at tip height 3 for the target a6 with the
\* window ending at 5, and the accept of the block at height 5 ended it
C16_Witness ==
    /\ InTimeEvent /\ Reached /\ TargetBeyondWindow
    /\ Before.curr.range = <<3, 3 + MAX_BLOCKS_TO_REQUEST>>
    /\ "a6" \in Before.curr.pool
    /\ curr.state = "InSync"

\* a heartbeat found the FSM in OutOfSync
SyncHeartbeatEvent ==
    fsmCall.op = "on_heartbeat_event" /\ Before.curr.state = "OutOfSync"

RecoveryReverted ==
    fsmCall.stall.branch = "stalled_on_fork" /\ fsmCall.stall.revert = "ok"

QuorumEvent == fsmCall.op = "on_quorum_msg"
\* the quorum is a Success(Valid(hash)) for the round after the tip, or for
\* the tip's round with a hash that is not the tip's
QuorumForNext ==
    /\ QuorumEvent
    /\ fsmCall.quorum.result = "Success(Valid)"
    /\ \/ fsmCall.quorum.round = get_curr_height(Before) + 1
       \/ /\ fsmCall.quorum.round = get_curr_height(Before)
          /\ fsmCall.quorum.hash # get_curr_hash(Before)
\* any other result, or a round at or below the tip's with the tip's hash
QuorumForOther ==
    /\ QuorumEvent
    /\ \/ fsmCall.quorum.result # "Success(Valid)"
       \/ /\ fsmCall.quorum.round <= get_curr_height(Before)
          /\ fsmCall.quorum.hash = get_curr_hash(Before)
\* the block handlers ran in the last call
Forwarded == fsmCall.fsm.branch \in
    {"blacklisted", "no_att", "lower", "lower_exists", "lower_final", "duplicate",
     "equal", "equal_no_prev", "next", "future", "oos_expired", "oos_old",
     "oos_next", "oos_pool"}

\* C20 (as stated): for a Success(Valid(hash)) quorum for the round after
\* the tip, or for the tip's round with another hash: when the candidate is
\* found it is given the attestation and passed to on_block_event; when it
\* is missing the attestation is cached under the hash and a request for
\* the candidate is flooded with hop limit 16.  For any other result, or a
\* round at or below the tip with the tip's hash, nothing is handed to the
\* acceptor and nothing is requested.
C20_QuorumMsg ==
    /\ QuorumForNext =>
          IF fsmCall.fetch = "Ok(Some)"
          THEN Forwarded /\ fsmCall.att
          ELSE /\ ~Forwarded
               /\ cache_contains_key(attestations_cache, fsmCall.quorum.hash)
               /\ effects = <<flood_request(fsmCall.quorum.hash)>>
    /\ QuorumForOther =>
          /\ ~Forwarded
          /\ \A part \in Parts : part.accepts = <<>>
          /\ effects = <<>>

\* C20, what the code does: the quorum of C20 is passed on with its
\* attestation when the candidate is found; when the lookup fails with an
\* error, the attestation is cached and the request flooded unless the hash
\* is in the cache already, and the call fails; when the lookup finds no
\* candidate, nothing is cached and nothing is requested.
C20_QuorumMsgInCode ==
    /\ QuorumForNext =>
          LET hash == fsmCall.quorum.hash
              cached == cache_contains_key(cache_retain(Before.attestations_cache), hash)
          IN  /\ fsmCall.fetch = "Ok(Some)" => Forwarded /\ fsmCall.att
              /\ fsmCall.fetch = "Err" =>
                    /\ ~Forwarded /\ fsmCall.err
                    /\ cache_contains_key(attestations_cache, hash)
                    /\ effects = IF cached THEN <<>> ELSE <<flood_request(hash)>>
              /\ fsmCall.fetch = "Ok(None)" =>
                    /\ ~Forwarded /\ ~fsmCall.err
                    /\ effects = <<>>
                    /\ attestations_cache = cache_retain(Before.attestations_cache)
    /\ QuorumForOther =>
          /\ ~Forwarded
          /\ \A part \in Parts : part.accepts = <<>>
          /\ effects = <<>>

\* C20 witness: a quorum for the round after the tip found no candidate, and
\* nothing was cached or requested
C20_Witness ==
    /\ QuorumForNext
    /\ fsmCall.quorum.round = get_curr_height(Before) + 1
    /\ fsmCall.fetch = "Ok(None)"
    /\ ~cache_contains_key(attestations_cache, fsmCall.quorum.hash)
    /\ effects = <<>>

\* ---- the attestation cache ----
\* on_block_event ran for a block that is not blacklisted, called directly
\* or from on_quorum_msg
HandledBlock ==
    /\ BlockEvent \/ (QuorumEvent /\ Forwarded)
    /\ Blk.hash \notin Before.blacklisted_blocks
\* the block came without an attestation
CandidateEvent == BlockEvent /\ ~fsmCall.att /\ Blk.hash \notin Before.blacklisted_blocks
\* the handler of the current state was called with the block
ReachedState == fsmCall.fsm.branch \notin {"none", "blacklisted", "no_att"}

\* C21: a block that arrives without an attestation is passed to the handler
\* of the current state (and so to the acceptor) exactly when the cache
\* holds an entry for its hash; with no entry the block is dropped, nothing
\* is accepted or sent and nothing but the cache changes (tip, FSM state
\* and stall detector are as before).  After every block event for a block
\* that is not blacklisted the cache holds no entry for the block's hash
\* and no expired entry.
C21_AttestationCache ==
    /\ CandidateEvent =>
          IF cache_contains_key(Before.attestations_cache, Blk.hash)
          THEN ReachedState
          ELSE /\ fsmCall.fsm.branch = "no_att"
               /\ fsmCall.ret = "-" /\ ~fsmCall.err
               /\ \A part \in Parts : part.accepts = <<>> /\ part.revert = "none"
               /\ effects = <<>>
               /\ ChangedNow \subseteq {"attestations_cache"}
    /\ HandledBlock =>
          /\ ~cache_contains_key(attestations_cache, Blk.hash)
          /\ cache_retain(attestations_cache) = attestations_cache

\* C21 witness: a block without attestation whose hash was in the cache
\* (the entry had expired) was accepted as the next block, and the cache
\* has lost the entry
C21_Witness ==
    /\ CandidateEvent
    /\ \E e \in Before.attestations_cache :
          e.hash = Blk.hash /\ e.age >= DEFAULT_ATT_CACHE_EXPIRY
    /\ fsmCall.fsm.branch = "next"
    /\ fsmCall.ret = Blk.hash
    /\ get_curr_hash(Node) = Blk.hash
    /\ ~cache_contains_key(attestations_cache, Blk.hash)

\* C21, second witness: a block without attestation and without a cache
\* entry was dropped while another hash stayed cached
C21_Dropped ==
    /\ CandidateEvent
    /\ fsmCall.fsm.branch = "no_att"
    /\ attestations_cache # {}

-----------------------------------------------------------------------------
(***************************************************************************)
(* Properties of the header validator                                      *)
(***************************************************************************)
Cand == hvCall.c
PrevHeader == validator.prev_header
\* the last call ran verify_failed_iterations to its end or to its error
FailedChecked ==
    \/ hvCall.op = "verify_failed_iterations"
    \/ /\ hvCall.op = "execute_checks"
       /\ verify_basic_fields(validator, Cand, hvCall.local_time) = "-"
       /\ verify_prev_block_cert(validator, Cand).ok
       /\ hvCall.disable \/ verify_success_att(validator, Cand).ok
\* slot i of the att_list (i counted from 0) is populated
Populated(i) == i < Len(Cand.failed_iterations) /\ Cand.failed_iterations[i + 1] # None
SlotAt(i) == Cand.failed_iterations[i + 1]
\* the populated slots below n whose ratification step-votes reach quorum
QuorumSlots(n) ==
    {i \in 0 .. n - 1 : Populated(i) /\ SlotAt(i).att.ratification = "quorum"}
\* a populated slot that carries a Success, or a generator that is not the
\* one elected for its iteration, or an attestation that does not verify
BadSlot(i) ==
    /\ Populated(i)
    /\ \/ SlotAt(i).att.result = "Success"
       \/ SlotAt(i).pk # get_generator(i, PrevHeader.seed, Cand.height)
       \/ verify_block_att(SlotAt(i).att).err # "-"
SlotIndexes == 0 .. Len(Cand.failed_iterations) - 1

\* C22 (as stated): when verify_failed_iterations passes, the PNI is
\* block.iteration minus the number of populated slots below block.iteration
\* whose ratification meets quorum, and it is not negative; the slots at
\* block.iteration and above do not count.
C22_Pni ==
    (FailedChecked /\ hvCall.res.ok) =>
        /\ hvCall.res.pni = Cand.iteration - Cardinality(QuorumSlots(Cand.iteration))
        /\ hvCall.res.pni >= 0

\* C22, what the code does: every populated slot of the list counts, also
\* those at block.iteration and above, and the PNI is block.iteration minus
\* their number as an 8-bit value; the call panics only when that number is
\* above block.iteration.
C22_PniInCode ==
    LET failed_atts == Cardinality(QuorumSlots(Len(Cand.failed_iterations)))
    IN  /\ (FailedChecked /\ hvCall.res.ok) =>
              hvCall.res.pni = (Cand.iteration - failed_atts) % 256
        /\ (FailedChecked /\ hvCall.res.err = "panic") => failed_atts > Cand.iteration

\* C22 witness: a header of iteration 0 with a populated slot 0 passed, and
\* its PNI is 255
C22_Witness ==
    /\ hvCall.op = "verify_failed_iterations" /\ hvCall.res.ok
    /\ Cand.iteration = 0
    /\ QuorumSlots(Len(Cand.failed_iterations)) = {0}
    /\ hvCall.res.pni = 255

\* C22, second witness: a slot at block.iteration lowered the PNI
C22_SlotBeyondIteration ==
    /\ hvCall.op = "verify_failed_iterations" /\ hvCall.res.ok
    /\ Cand.iteration = 1
    /\ QuorumSlots(Len(Cand.failed_iterations)) = {1}
    /\ hvCall.res.pni = 0

\* C23: in the failed-iterations check an empty slot is skipped (its
\* attestation is not verified, and a list of empty slots only gives
\* PNI = block.iteration); a populated slot whose result is Success, or
\* whose generator is not the one elected for (index, prev.seed,
\* block.height), or whose attestation does not verify, makes the check
\* fail: no PNI is returned.
C23_FailedSlots ==
    FailedChecked =>
        /\ \A i \in SlotIndexes :
              ~Populated(i) => \A k \in DOMAIN hvCall.res.verified :
                                  hvCall.res.verified[k] # <<"failed", i>>
        /\ (\A i \in SlotIndexes : ~Populated(i)) =>
              hvCall.res.ok /\ hvCall.res.pni = Cand.iteration
        /\ (\E i \in SlotIndexes : BadSlot(i)) =>
              ~hvCall.res.ok /\ hvCall.res.pni = -1 /\ hvCall.res.err # "panic"

\* C23 witness: an empty slot was followed by a slot with a Success, and the
\* check failed
C23_Witness ==
    /\ hvCall.op = "verify_failed_iterations"
    /\ Len(Cand.failed_iterations) = 2
    /\ ~Populated(0)
    /\ Populated(1) /\ SlotAt(1).att.result = "Success"
    /\ SlotAt(1).pk = get_generator(1, PrevHeader.seed, Cand.height)
    /\ ~hvCall.res.ok

\* the basic fields other than the timestamp are right
OtherBasicFieldsValid ==
    /\ Cand.version = 0
    /\ Cand.hash # ZeroHash
    /\ Cand.height = PrevHeader.height + 1
    /\ Cand.prev_block_hash = PrevHeader.hash
    /\ Cand.hash \notin validator.db
    /\ verify_seed_field(validator, Cand.seed, Cand.generator_bls_pubkey) = "-"

\* C24: with the other basic fields valid, verify_basic_fields passes
\* exactly when prev.timestamp + MINIMUM_BLOCK_TIME <= timestamp <=
\* now + MARGIN_TIMESTAMP, both bounds included.
C24_TimestampBounds ==
    (hvCall.op = "verify_basic_fields" /\ OtherBasicFieldsValid) =>
        (hvCall.res.ok <=>
            /\ PrevHeader.timestamp + MINIMUM_BLOCK_TIME <= Cand.timestamp
            /\ Cand.timestamp <= hvCall.local_time + MARGIN_TIMESTAMP)

\* C24 witness: a timestamp equal to now + MARGIN_TIMESTAMP, above the lower
\* bound, passed
C24_Witness ==
    /\ hvCall.op = "verify_basic_fields" /\ OtherBasicFieldsValid
    /\ Cand.timestamp = hvCall.local_time + MARGIN_TIMESTAMP
    /\ Cand.timestamp > PrevHeader.timestamp + MINIMUM_BLOCK_TIME
    /\ hvCall.res.ok

\* C24, the other three cases at the bounds
C24_LowerAccepted ==
    /\ hvCall.op = "verify_basic_fields" /\ OtherBasicFieldsValid
    /\ Cand.timestamp = PrevHeader.timestamp + MINIMUM_BLOCK_TIME
    /\ hvCall.res.ok
C24_BelowRejected ==
    /\ hvCall.op = "verify_basic_fields" /\ OtherBasicFieldsValid
    /\ Cand.timestamp = PrevHeader.timestamp + MINIMUM_BLOCK_TIME - 1
    /\ hvCall.res.err = "block time is less than minimum block time"
C24_AboveRejected ==
    /\ hvCall.op = "verify_basic_fields" /\ OtherBasicFieldsValid
    /\ Cand.timestamp = hvCall.local_time + MARGIN_TIMESTAMP + 1
    /\ hvCall.res.err = "block timestamp is higher than local time"

\* the fields that tie the block to the previous header and the ledger
Linked ==
    /\ Cand.version = 0
    /\ Cand.hash # ZeroHash
    /\ Cand.height = PrevHeader.height + 1
    /\ Cand.prev_block_hash = PrevHeader.hash
    /\ Cand.hash \notin validator.db

\* C25: a header that passes execute_checks against previous header P has
\* height = P.height + 1, prev_block_hash = P.hash, version 0, a hash that is
\* not zero and is not in the ledger; a header failing any of these is
\* rejected before any attestation is verified.
C25_LinkedToPrevious ==
    hvCall.op = "execute_checks" =>
        /\ hvCall.res.ok => Linked
        /\ ~Linked => ~hvCall.res.ok /\ hvCall.res.verified = <<>>

\* C25 witness: a header with a wrong height and a previous-block
\* attestation that does not verify was rejected for its height, with no
\* attestation verified
C25_Witness ==
    /\ hvCall.op = "execute_checks"
    /\ PrevHeader.height > 0
    /\ Cand.height # PrevHeader.height + 1
    /\ verify_block_att(Cand.prev_block_cert).err # "-"
    /\ hvCall.res.err = "invalid block height"
    /\ hvCall.res.verified = <<>>

\* C25, second witness: a header passed all checks, its three kinds of
\* attestations verified
C25_Passed ==
    /\ hvCall.op = "execute_checks" /\ hvCall.res.ok
    /\ Len(hvCall.res.verified) = 3

-----------------------------------------------------------------------------
(***************************************************************************)
(* Properties of the mempool service                                       *)
(***************************************************************************)
\* the last step of the loop was a call of accept_tx
AcceptCall == mpCall.op = "recv" /\ mpCall.payload # NotATx
NewTx == TxOf(mpCall.payload)
WasFull == txs_count(mpCall.before) >= max_mempool_txn_count
WasInMempool == get_tx_exists(mpCall.before, NewTx.id)
\* the mempool transactions that share a spend id with the new one
Incumbents == get_txs_by_spendable_ids(mpCall.before, NewTx.spend_ids)
\* the call changed nothing, sent no event and broadcast nothing
NothingDone ==
    /\ mpCall.after = mpCall.before
    /\ mpCall.events = <<>>
    /\ ~mpCall.broadcast
\* the transaction passed the checks that come before the spend ids
PassedBasicChecks ==
    /\ AcceptCall
    /\ ~WasFull /\ ~WasInMempool /\ ~get_ledger_tx_exists(NewTx.id)
    /\ mpCall.preverify

\* C26: the mempool never holds more than max_mempool_txn_count
\* transactions; a valid new transaction without a conflict is accepted
\* while the mempool holds fewer, and an accept_tx on a full mempool is
\* rejected with MaxTxnCountExceeded and changes nothing, also when the
\* transaction would replace a cheaper one.
C26_MaxTxnCount ==
    /\ txs_count(mempool) <= max_mempool_txn_count
    /\ (AcceptCall /\ WasFull) =>
          mpCall.res = "MaxTxnCountExceeded" /\ NothingDone
    /\ (PassedBasicChecks /\ Incumbents = {}) =>
          /\ mpCall.res = "ok"
          /\ mpCall.after = mpCall.before \cup {[id |-> NewTx.id, age |-> 0]}

\* C26 witness: the mempool was full of transactions without conflicts and
\* a transaction that would have replaced a cheaper one was rejected
C26_Witness ==
    /\ AcceptCall /\ mpCall.preverify
    /\ txs_count(mpCall.before) = max_mempool_txn_count
    /\ \A e \in mpCall.before :
          get_txs_by_spendable_ids(mpCall.before, TxOf(e.id).spend_ids) = {e.id}
    /\ Incumbents # {}
    /\ \A m \in Incumbents : TxOf(m).gas_price < NewTx.gas_price
    /\ mpCall.res = "MaxTxnCountExceeded"
    /\ mempool = mpCall.before

\* C27 (as stated): a second accept_tx of a transaction that is in the
\* mempool is rejected with AlreadyExistsInMempool whatever the size of the
\* mempool, changes nothing and emits nothing; a transaction that is in the
\* ledger is rejected with AlreadyExistsInLedger.
C27_Idempotent ==
    /\ (AcceptCall /\ WasInMempool) =>
          mpCall.res = "AlreadyExistsInMempool" /\ NothingDone
    /\ (AcceptCall /\ get_ledger_tx_exists(NewTx.id)) =>
          mpCall.res = "AlreadyExistsInLedger"

\* C27 (amended): a second accept_tx of a transaction that is in the mempool
\* changes nothing and emits nothing; it is rejected with
\* AlreadyExistsInMempool while the mempool holds fewer than
\* max_mempool_txn_count transactions and with MaxTxnCountExceeded when the
\* mempool is full.  A transaction that is in the ledger and not in the
\* mempool is rejected with AlreadyExistsInLedger, or with
\* MaxTxnCountExceeded when the mempool is full.
C27_IdempotentAmended ==
    /\ (AcceptCall /\ WasInMempool) =>
          /\ NothingDone
          /\ mpCall.res = IF WasFull THEN "MaxTxnCountExceeded"
                          ELSE "AlreadyExistsInMempool"
    /\ (AcceptCall /\ get_ledger_tx_exists(NewTx.id) /\ ~WasInMempool) =>
          /\ NothingDone
          /\ mpCall.res = IF WasFull THEN "MaxTxnCountExceeded"
                          ELSE "AlreadyExistsInLedger"

\* C27 witness: a transaction of a full mempool was submitted again and
\* rejected with MaxTxnCountExceeded
C27_Witness ==
    /\ AcceptCall /\ WasInMempool /\ WasFull
    /\ mpCall.res = "MaxTxnCountExceeded"
    /\ NothingDone

\* C27, second witness: the second submission to a mempool with room
C27_SecondSubmission ==
    /\ AcceptCall /\ WasInMempool /\ ~WasFull
    /\ mpCall.res = "AlreadyExistsInMempool"

\* the events of an accepted transaction: one Removed per incumbent, each
\* once, then Included
ReplacementEvents ==
    /\ Len(mpCall.events) = Cardinality(Incumbents) + 1
    /\ \A m \in Incumbents :
          \E k \in 1 .. Cardinality(Incumbents) : mpCall.events[k] = Removed(m)
    /\ mpCall.events[Len(mpCall.events)] = Included(NewTx)

\* C28 (as stated): a new transaction that shares a spend id with mempool
\* transactions is accepted exactly when its gas price is above that of
\* each of them, and is rejected with SpendIdExistsInMempool otherwise; when
\* it is accepted they are all removed and the events are one Removed per
\* displaced transaction followed by Included.
C28_ReplaceByGasPrice ==
    (PassedBasicChecks /\ Incumbents # {}) =>
        IF \A m \in Incumbents : TxOf(m).gas_price < NewTx.gas_price
        THEN /\ mpCall.res = "ok"
             /\ mpCall.after = {e \in mpCall.before : e.id \notin Incumbents}
                                  \cup {[id |-> NewTx.id, age |-> 0]}
             /\ ReplacementEvents
        ELSE mpCall.res = "SpendIdExistsInMempool"

\* C28, what the code does: as C28, but the rejection is returned as
\* TxAcceptanceError::Generic carrying the SpendIdExistsInMempool error, with
\* the mempool unchanged and no event.
C28_ReplaceByGasPriceInCode ==
    (PassedBasicChecks /\ Incumbents # {}) =>
        IF \A m \in Incumbents : TxOf(m).gas_price < NewTx.gas_price
        THEN /\ mpCall.res = "ok"
             /\ mpCall.after = {e \in mpCall.before : e.id \notin Incumbents}
                                  \cup {[id |-> NewTx.id, age |-> 0]}
             /\ ReplacementEvents
        ELSE mpCall.res = "Generic(SpendIdExistsInMempool)" /\ NothingDone

\* C28 witness: a transaction with the gas price of the incumbent on its
\* spend id was rejected, with the Generic error
C28_Witness ==
    /\ PassedBasicChecks
    /\ \E m \in Incumbents : TxOf(m).gas_price = NewTx.gas_price
    /\ mpCall.res = "Generic(SpendIdExistsInMempool)"

\* C28, second witness: a transaction displaced two cheaper incumbents
C28_TwoDisplaced ==
    /\ PassedBasicChecks
    /\ Cardinality(Incumbents) = 2
    /\ mpCall.res = "ok"
    /\ Len(mpCall.events) = 3

\* the transactions stored before now - mempool_expiry when the step began
ExpiredBefore == {e \in mpCall.before : e.age > mempool_expiry}

EventDropped == mpCall.sent < Len(mpCall.events)

-----------------------------------------------------------------------------
(***************************************************************************)
(* Properties of the proposal handler                                      *)
(***************************************************************************)
VerifyCall == phCall.op = "verify"
\* the conditions of a valid Candidate message, in the order of the errors
IsCandidate == phCall.msg.payload = "Candidate"
SignatureValid == phCall.msg.signature_ok
PrevHashMatches == phCall.msg.prev_block_hash = phCall.msg.candidate.prev_block_hash
TxRootMatches == phCall.msg.candidate.txroot = merkle_root(phCall.msg.candidate.txs)
SenderInCommittee == phCall.msg.pubkey_bls \in phCall.committee

\* C30: verify accepts a message exactly when its payload is a Candidate,
\* the signature is valid, the prev_block_hash of the message header is the
\* one of the candidate header, the candidate's txroot is the merkle root of
\* its transaction hashes and the sender is in the committee; otherwise it
\* fails with the error of the first condition that does not hold, in the
\* order InvalidMsgType, signature error, InvalidBlockHash, InvalidBlock,
\* NotCommitteeMember.  verify leaves the candidate store as it is.
C30_ProposalVerify ==
    VerifyCall =>
        /\ phCall.res =
              IF ~IsCandidate THEN "InvalidMsgType"
              ELSE IF ~SignatureValid THEN "InvalidSignature"
              ELSE IF ~PrevHashMatches THEN "InvalidBlockHash"
              ELSE IF ~TxRootMatches THEN "InvalidBlock"
              ELSE IF ~SenderInCommittee THEN "NotCommitteeMember"
              ELSE "ok"
        /\ phCall.res = "ok" <=>
              /\ IsCandidate /\ SignatureValid /\ PrevHashMatches
              /\ TxRootMatches /\ SenderInCommittee
        /\ candidate_db = phCall.before

\* C30 witness: a candidate with a wrong txroot from a sender outside the
\* committee was rejected with InvalidBlock, while a candidate was stored
C30_Witness ==
    /\ VerifyCall
    /\ IsCandidate /\ SignatureValid /\ PrevHashMatches
    /\ ~TxRootMatches /\ ~SenderInCommittee
    /\ phCall.res = "InvalidBlock"
    /\ candidate_db # {}

\* C30, second witness: a message was accepted
C30_Accepted == VerifyCall /\ phCall.res = "ok"

\* the terminal message a call of the handler gave back, if any
Terminal == phCall.out
StoredByCall == candidate_db \ phCall.before

\* C31: collect stores the candidate block of a Candidate message and
\* returns that message; for another payload it fails with InvalidMsgType
\* and stores nothing.  collect_from_past stores nothing and returns no
\* message; handle_timeout stores nothing and returns the empty message.
\* A message the handler returns is the collected Candidate message or
\* the empty message.
C31_ProposalCollect ==
    /\ phCall.op = "collect" /\ IsCandidate =>
          /\ phCall.res = "ok"
          /\ Terminal = <<phCall.msg>>
          /\ candidate_db = phCall.before \cup {phCall.msg.candidate}
    /\ phCall.op = "collect" /\ ~IsCandidate =>
          /\ phCall.res = "InvalidMsgType"
          /\ Terminal = <<>>
          /\ candidate_db = phCall.before
    /\ phCall.op = "collect_from_past" =>
          phCall.res = "ok" /\ Terminal = <<>> /\ candidate_db = phCall.before
    /\ phCall.op = "handle_timeout" =>
          /\ phCall.res = "ok"
          /\ Terminal = <<EmptyMessage>>
          /\ candidate_db = phCall.before
    /\ Terminal # <<>> =>
          \/ Terminal = <<EmptyMessage>>
          \/ Terminal = <<phCall.msg>> /\ IsCandidate

\* C31 witness: collect stored a candidate the store did not hold and
\* returned the message
C31_Witness ==
    /\ phCall.op = "collect"
    /\ IsCandidate
    /\ StoredByCall = {phCall.msg.candidate}
    /\ Terminal = <<phCall.msg>>

\* C31, second witness: a timeout after a candidate was stored
C31_TimeoutAfterCollect ==
    phCall.op = "handle_timeout" /\ candidate_db # {} /\ Terminal = <<EmptyMessage>>

-----------------------------------------------------------------------------
(***************************************************************************)
(* Properties of the vote-cast tasks: verified hash and executor           *)
(***************************************************************************)
\* the task is past the part that may call verify_state_transition
PastVst(t) == task[t].pc \in {"store", "publish", "register", "done"}
\* the task has called verify_state_transition (the call may be running)
CalledVst(t) ==
    \/ task[t].pc = "vst"
    \/ task[t].vst \in {"verified", "vst_error", "event_hash_mismatch",
                        "state_hash_mismatch"}
\* the VST call of the task succeeded with the candidate's hashes
PassedVst(t) == task[t].vst = "verified"
\* the candidate differed from the verified hash when the task read it
Differed(t) == task[t].candidate.hash # ZeroHash /\ ~task[t].already_verified
VstPassedFor(h) == \E t \in Tasks : task[t].candidate.hash = h /\ PassedVst(t)

\* what follows the reading of the verified hash, whatever the VST part does
VerifiedHashProvenance ==
    /\ verified_hash # ZeroHash => VstPassedFor(verified_hash)
    /\ \A k \in 1 .. Len(outbound) :
          outbound[k].block_hash # ZeroHash => VstPassedFor(outbound[k].block_hash)
    /\ \A t \in Tasks :
          task[t].pc \in {"store", "publish", "register"}
          /\ task[t].candidate.hash # ZeroHash
          => PassedVst(t) \/ task[t].already_verified

\* C32 (as stated): a vote-cast task calls verify_state_transition exactly
\* when the candidate hash is non-zero and differs from the verified hash
\* as the task read it; the verified hash is a non-zero h only after a task
\* passed VST for h, and a vote for a non-zero h is published only after
\* VST succeeded for h.
C32_VstIffNotVerified ==
    /\ \A t \in Tasks : PastVst(t) => (CalledVst(t) <=> Differed(t))
    /\ VerifiedHashProvenance

\* C32 (amended): the task calls verify_state_transition exactly when the
\* hash is non-zero, differs from the verified hash as read, and the
\* generator key of the candidate decodes; a task whose key does not decode
\* ends without a VST call and without a vote.
C32_VstIffNotVerifiedAmended ==
    /\ \A t \in Tasks :
          PastVst(t) =>
             /\ CalledVst(t) <=> Differed(t) /\ task[t].vst # "no_generator"
             /\ task[t].vst = "no_generator" =>
                   /\ Differed(t) /\ task[t].pc = "done"
                   /\ ~VoteIn(outbound, t) /\ ~VoteIn(inbound, t)
    /\ \A t \in Tasks : CalledVst(t) => Differed(t)
    /\ VerifiedHashProvenance

\* C32 witness: a task found the verified hash equal to its non-zero
\* candidate hash, skipped VST and published a vote for it
C32_Witness ==
    \E t \in Tasks :
        /\ task[t].candidate.hash # ZeroHash
        /\ task[t].already_verified
        /\ ~CalledVst(t)
        /\ \E k \in 1 .. Len(outbound) :
              outbound[k].from = t /\ outbound[k].block_hash = task[t].candidate.hash

\* C32, second witness: the key of a candidate to verify did not decode
C32_NoGenerator ==
    \E t \in Tasks : task[t].pc = "done" /\ task[t].vst = "no_generator"

\* the tasks that called verify_state_transition for hash h
VstCallsFor(h) == {t \in Tasks : task[t].candidate.hash = h /\ CalledVst(t)}
VstRunning == {t \in Tasks : task[t].pc = "vst"}
NonZeroHashes == {c.hash : c \in Candidates} \ {ZeroHash}

\* C34 (as stated): under every interleaving of the vote-cast tasks of a
\* round, verify_state_transition is executed at most once for the same
\* non-zero candidate hash, and at most one VST call is in progress.
C34_VstAtMostOnce ==
    /\ \A h \in NonZeroHashes : Cardinality(VstCallsFor(h)) <= 1
    /\ Cardinality(VstRunning) <= 1

\* C34 (in the code): at most one VST call is in progress, made by the
\* holder of the executor lock; a task that read the verified hash equal
\* to its candidate hash makes no call.
C34_VstExclusive ==
    /\ Cardinality(VstRunning) <= 1
    /\ \A t \in Tasks : task[t].pc = "vst" <=> executor = t
    /\ \A t \in Tasks : task[t].already_verified => ~CalledVst(t)

\* C34 witness: the validation and the ratification caster both ran VST for
\* the same candidate, one of them while the other waited for the executor
C34_Witness ==
    \E h \in NonZeroHashes :
        /\ VstCallsFor(h) = Tasks
        /\ \A t \in Tasks : PassedVst(t)

\* C34, second witness: a task waits for the executor while a call runs
C34_Waiting ==
    \E t, u \in Tasks : task[t].pc = "vst" /\ task[u].pc = "lock_executor"

-----------------------------------------------------------------------------
(***************************************************************************)
(* Properties of the phase                                                 *)
(***************************************************************************)
PhaseCalled == phaseCall.res # "-"
RunStep == phaseCall.step
\* iteration = step / 3, step kind = step mod 3
RunIteration == RunStep \div 3
RunIsProposal == RunStep % 3 = 0
\* the committee of the Proposal step of the iteration, as the call found it
ProposalCommittee == phaseCall.before[3 * RunIteration]
PhaseStarted == phaseCall.at_run # <<>>

\* C33: Phase::run computes the committee of a Proposal step with no
\* exclusion, and the committee of a Validation or Ratification step with
\* the generator recorded for the same iteration as exclusion; without the
\* Proposal committee of the iteration a Validation or Ratification step
\* aborts and does not run; the step runs with its committee saved in the
\* context.
C33_PhaseCommittee ==
    PhaseCalled =>
        /\ RunIsProposal => PhaseStarted /\ phaseCall.exclusion = <<>>
        /\ ~RunIsProposal /\ ProposalCommittee # NoCommittee =>
              /\ PhaseStarted
              /\ Len(phaseCall.exclusion) = 1
              /\ ProposalCommittee.members = {phaseCall.exclusion[1]}
        /\ ~RunIsProposal /\ ProposalCommittee = NoCommittee =>
              /\ ~PhaseStarted
              /\ phaseCall.res = "panic"
              /\ round_committees = phaseCall.before
        /\ PhaseStarted =>
              /\ phaseCall.committee.step = RunStep
              /\ phaseCall.committee.excluded = phaseCall.exclusion
              /\ \A k \in 1 .. Len(phaseCall.exclusion) :
                    phaseCall.exclusion[k] \notin phaseCall.committee.members
              /\ phaseCall.at_run[1][RunStep] = phaseCall.committee
              /\ round_committees = phaseCall.at_run[1]

\* C33 witness: the Ratification step of the second iteration ran with the
\* generator of that iteration excluded
C33_Witness ==
    /\ PhaseCalled /\ PhaseStarted
    /\ RunStep = 5
    /\ phaseCall.exclusion = <<"pk1">>
    /\ round_committees[0] # NoCommittee

\* C33, second witness: a Validation step aborted for lack of the Proposal
\* committee of its iteration, the one of another iteration being there
C33_Aborted ==
    /\ phaseCall.res = "panic"
    /\ RunStep = 4
    /\ round_committees[0] # NoCommittee

-----------------------------------------------------------------------------
(***************************************************************************)
(* Properties of the step-votes kept by the certificate registry           *)
(***************************************************************************)
\* the slot of an entry ("nil" or "valid"), DefaultCertInfo when not there
SlotAtIter(cl, iteration, slot) ==
    IF cl[iteration] = None THEN DefaultCertInfo
    ELSE IF slot = "nil" THEN cl[iteration].nil
    ELSE IF cl[iteration].valid = None THEN DefaultCertInfo
    ELSE cl[iteration].valid
SvField(ci, svt) == IF svt = "Validation" THEN ci.validation ELSE ci.ratification
FlagOf(ci, svt) ==
    IF svt = "Validation" THEN ci.quorum_reached_validation
    ELSE ci.quorum_reached_ratification
RegSlots == RegIterations \X {"nil", "valid"}
\* the slot the last call went to
CallSlot == IF regCall.vote = NoCandidate THEN "nil" ELSE "valid"

\* a Quorum message carries step-votes submitted with quorum_reached
QuorumCarriesQuorumSv ==
    regOut.kind = "quorum" =>
        /\ regOut.validation \in regQuorumSv[<<regOut.iteration, CallSlot, "Validation">>]
        /\ regOut.ratification \in regQuorumSv[<<regOut.iteration, CallSlot, "Ratification">>]

\* the quorum flags of every slot stay set
FlagsKept ==
    \A t \in RegSlots, svt \in SvTypes :
        FlagOf(SlotAtIter(cert_list, t[1], t[2]), svt)
        => FlagOf(SlotAtIter(cert_list', t[1], t[2]), svt)

\* a call without quorum, or with empty step-votes, for a step whose flag is
\* set leaves the step-votes of the slot and keeps a ready slot ready
QuorumSvKept ==
    LET c == regCall'
        old == SlotAtIter(cert_list, c.iteration, IF c.vote = NoCandidate THEN "nil" ELSE "valid")
        new == SlotAtIter(cert_list', c.iteration, IF c.vote = NoCandidate THEN "nil" ELSE "valid")
    IN  (/\ c.op = "add_step_votes"
         /\ regOut'.err = FALSE
         /\ FlagOf(old, c.svt)
         /\ ~c.quorum_reached \/ sv_is_empty(c.sv))
        => /\ SvField(new, c.svt) = SvField(old, c.svt)
           /\ is_ready(old) => is_ready(new)

\* C35 (as stated): the validation and the ratification step-votes of every
\* Quorum message returned by add_step_votes were submitted in a call with
\* quorum_reached = true for that slot and step; a later call for the slot
\* and step without quorum or with empty step-votes neither replaces them
\* nor makes a ready slot not ready; quorum flags, once set, stay set.
C35_QuorumStepVotes ==
    /\ []QuorumCarriesQuorumSv
    /\ [][QuorumSvKept]_vars
    /\ [][FlagsKept]_vars

\* C35 (in the code): quorum flags, once set, stay set; every call that is
\* not rejected writes its step-votes into the field of its step, whatever
\* quorum_reached is, and a Quorum message carries the fields of the slot
\* as they are after the write.
C35_StepVotesOverwritten ==
    /\ [][FlagsKept]_vars
    /\ [](regCall.op = "add_step_votes" /\ ~regOut.err =>
            LET ci == SlotAtIter(cert_list, regCall.iteration, CallSlot)
            IN  /\ SvField(ci, regCall.svt) = regCall.sv
                /\ regOut.kind = "quorum" =>
                      /\ regOut.validation = ci.validation
                      /\ regOut.ratification = ci.ratification
                      /\ is_ready(ci))

\* C35 witness: a Quorum message carries validation step-votes that were
\* submitted without quorum, after other step-votes had reached it
C35_Witness ==
    /\ regOut.kind = "quorum"
    /\ regOut.validation = "svB"
    /\ regQuorumSv[<<0, CallSlot, "Validation">>] = {"svA"}

-----------------------------------------------------------------------------
(***************************************************************************)
(* Properties of the sync timeout                                          *)
(***************************************************************************)
FsmEvent == fsmCall.op \in {"on_block_event", "on_heartbeat_event"}
\* the event found the FSM in OutOfSync with the sync timer expired
TimedOutBefore == Before.curr.state = "OutOfSync" /\ Expired(Before)
EffectSet == {effects[i] : i \in 1 .. Len(effects)}

\* C36 (as stated): no heartbeat and no block event that finds the sync
\* timer expired moves the FSM from OutOfSync to InSync while attempts
\* remain.
C36_TimeoutAfterRetries ==
    (FsmEvent /\ TimedOutBefore /\ Before.curr.attempts > 0)
    => curr.state = "OutOfSync"

\* C36 (in the code): a heartbeat that finds the timer expired leaves
\* OutOfSync exactly when no attempts remain; a block event that reaches
\* the OutOfSync handler with the timer expired restarts consensus and
\* returns to InSync whatever the attempts are, unless the block is the
\* next one and its accept on entering InSync fails; a block event dropped
\* before the handler leaves the FSM in OutOfSync.
C36_TimeoutInCode ==
    /\ (SyncHeartbeatEvent /\ Expired(Before)) =>
          IF Before.curr.attempts > 0
          THEN /\ curr.state = "OutOfSync"
               /\ curr.attempts = Before.curr.attempts - 1
          ELSE curr.state = "InSync"
    /\ (OutOfSyncEvent /\ Expired(Before)) =>
          /\ fsmCall.fsm.branch = "oos_expired"
          /\ RestartConsensus \in EffectSet
          /\ Len(fsmCall.fsm.accepts) =
                IF Blk.height = get_curr_height(Before) + 1 THEN 1 ELSE 0
          /\ curr.state = "InSync" <=>
                \A i \in 1 .. Len(fsmCall.fsm.accepts) : fsmCall.fsm.accepts[i].ok
    /\ (BlockEvent /\ ~Processed /\ Before.curr.state = "OutOfSync") =>
          curr = Before.curr

\* C36 witness: a block event found the sync timer expired with all three
\* attempts left, and the FSM is back in InSync
C36_Witness ==
    /\ OutOfSyncEvent
    /\ Expired(Before)
    /\ Before.curr.attempts = 3
    /\ curr.state = "InSync"

\* C36, second witness: an expired heartbeat with attempts left
C36_Retried ==
    /\ SyncHeartbeatEvent /\ Expired(Before)
    /\ Before.curr.attempts = 1
    /\ curr.state = "OutOfSync"

-----------------------------------------------------------------------------
(***************************************************************************)
(* Properties of the mempool: rejected transactions and spend ids          *)
(***************************************************************************)
AcceptErrors ==
    {"MaxTxnCountExceeded", "AlreadyExistsInMempool", "AlreadyExistsInLedger",
     "VerificationFailed", "Generic(SpendIdExistsInMempool)"}
CheaperIncumbents == {m \in Incumbents : TxOf(m).gas_price < NewTx.gas_price}

MempoolIds == {e.id : e \in mempool}
\* no two transactions of the mempool have a spend id in common
SpendIdsDisjoint ==
    \A a, b \in MempoolIds :
        a # b => TxOf(a).spend_ids \cap TxOf(b).spend_ids = {}
\* a transaction enters the mempool only through an accept_tx call for it
\* that passed preverify and did not find it in the ledger
AdmittedByAccept ==
    \A id \in MempoolIds' \ MempoolIds :
        /\ mpCall'.op = "recv" /\ mpCall'.payload = id
        /\ mpCall'.res = "ok"
        /\ mpCall'.preverify
        /\ ~get_ledger_tx_exists(id)
        /\ ~get_tx_exists(mempool, id)

\* C38: no two transactions of the mempool share a spend id, and every
\* transaction of the mempool passed preverify and was absent from the
\* ledger when it was admitted.
C38_SpendIdsUnique == []SpendIdsDisjoint /\ [][AdmittedByAccept]_vars

\* C38 witness: a transaction was admitted in place of a cheaper incumbent
\* next to a transaction with other spend ids
C38_Witness ==
    /\ PassedBasicChecks /\ mpCall.res = "ok"
    /\ Incumbents # {}
    /\ NewTx.id \in MempoolIds
    /\ Cardinality(MempoolIds) >= 2

-----------------------------------------------------------------------------
(***************************************************************************)
(* Properties of the calls of the acceptor                                 *)
(***************************************************************************)
\* the blocks of a log were handed to the acceptor at the height after the tip
AtNextHeight(log) ==
    \A i \in 1 .. Len(log.accepts) :
        HeaderOf(log.accepts[i].hash).height = log.accepts[i].tip_height + 1
\* the accepts of a log follow one another: each found the tip one block
\* above the one before it, which had succeeded
Consecutive(log) ==
    \A i \in 2 .. Len(log.accepts) :
        /\ log.accepts[i - 1].ok
        /\ log.accepts[i].tip_height = log.accepts[i - 1].tip_height + 1
\* the tip height a part of the handler leaves, from the one it found
TipAfter(log, found) ==
    LET base == IF log.revert = "ok" THEN log.reverted ELSE found
        oks == {i \in 1 .. Len(log.accepts) : log.accepts[i].ok}
    IN  base + Cardinality(oks)
TipMoves ==
    LET found == get_curr_height(Before)
        mid == TipAfter(fsmCall.fsm, found)
    IN  /\ fsmCall.fsm.revert = "ok" => fsmCall.fsm.reverted <= found
        /\ fsmCall.stall.revert = "ok" => fsmCall.stall.reverted <= mid
        /\ Len(acc.chain) - 1 = TipAfter(fsmCall.stall, mid)

RecoveryAccept ==
    \A i \in 1 .. Len(fsmCall.stall.accepts) :
        LET a == fsmCall.stall.accepts[i]
            remote == HeaderOf(a.hash)
        IN  /\ i = 1
            /\ fsmCall.stall.branch = "stalled_on_fork"
            /\ fsmCall.stall.revert = "ok"
            /\ a.hash = fsmCall.stall.remote
            /\ a.tip_height = fsmCall.stall.reverted
            /\ a.tip_height = HeaderOf(remote.prev_block_hash).height
            /\ a.ok => remote.height = a.tip_height + 1

C39_Recovered ==
    /\ FsmEvent
    /\ Len(fsmCall.stall.accepts) = 1
    /\ fsmCall.stall.accepts[1].ok

\* C39, third witness: a block and a pooled one were accepted in one event
C39_Drained ==
    /\ FsmEvent
    /\ Len(fsmCall.fsm.accepts) >= 2
    /\ \A i \in 1 .. Len(fsmCall.fsm.accepts) : fsmCall.fsm.accepts[i].ok

\* C39, fourth witness: a fallback accepted the remote block after its revert
C39_FellBack ==
    /\ FsmEvent
    /\ fsmCall.fsm.revert = "ok"
    /\ Len(fsmCall.fsm.accepts) = 1
    /\ fsmCall.fsm.accepts[1].ok

-----------------------------------------------------------------------------
(***************************************************************************)
(* Properties of the presync record                                        *)
(***************************************************************************)
HeartbeatEvent == fsmCall.op = "on_heartbeat_event"
\* the presync record the last event found, in InSync
Recorded == FsmEvent /\ Before.curr.state = "InSync" /\ Before.curr.presync # NoPresync
\* the block requested from the presync peer arrived from it and was accepted
PresyncMatched ==
    /\ InSyncEvent /\ fsmCall.md = Before.curr.presync.peer_addr
    /\ Blk.height = Before.curr.presync.start_height + 1
    /\ fsmCall.fsm.branch = "next"
    /\ AllAccepted
PresyncExpired == Before.curr.presync.age >= DEFAULT_TIMEOUT

\* C40: in InSync a presync record is kept as it is by every event, a later
\* future block included, except that the accepted block it asked for moves
\* the FSM to OutOfSync, a heartbeat at or after its expiry of 10 s removes
\* it, and an event that leaves InSync drops it; once it is gone the next
\* future block with peer metadata records a fresh one.  A heartbeat in
\* InSync changes neither the ledger nor the state.
C40_PresyncKept ==
    /\ Recorded =>
          /\ curr.presync \in {Before.curr.presync, NoPresync}
          /\ curr.state = "OutOfSync" => curr.presync = NoPresync
          /\ PresyncMatched => curr.state = "OutOfSync"
          /\ (HeartbeatEvent /\ PresyncExpired) => curr.presync = NoPresync
          /\ (curr.state = "InSync" /\ curr.presync = NoPresync) =>
                HeartbeatEvent /\ PresyncExpired
    /\ (FutureEvent /\ Before.curr.presync = NoPresync /\ fsmCall.md # NoMetadata) =>
          /\ curr.presync = PresyncInfoNew(fsmCall.md, Blk, get_curr_height(Before))
          /\ curr.presync.age < DEFAULT_TIMEOUT
    /\ (HeartbeatEvent /\ Before.curr.state = "InSync") =>
          /\ acc = Before.acc
          /\ curr.state = "InSync"
          /\ Before.curr.presync = NoPresync => curr.presync = NoPresync

\* C40 witness: a future block for another target arrived with metadata
\* while an older record existed, and the record was kept
C40_Witness ==
    /\ Recorded /\ FutureEvent /\ fsmCall.md # NoMetadata
    /\ Before.curr.presync.age > 0
    /\ Before.curr.presync.target_blk # Blk.hash
    /\ curr.presync = Before.curr.presync

\* C40, witness: a record was made by a later event, none being there
C40_Rerecorded ==
    /\ FutureEvent /\ Before.curr.presync = NoPresync /\ fsmCall.md # NoMetadata
    /\ curr.presync # NoPresync
    /\ fsmEvents >= 3

\* C40, second witness: a heartbeat removed an expired record
C40_ExpiredRemoved ==
    /\ Recorded /\ HeartbeatEvent /\ PresyncExpired
    /\ curr.presync = NoPresync

\* C40, third witness: a heartbeat before the expiry kept the record
C40_HeartbeatKept ==
    /\ Recorded /\ HeartbeatEvent /\ ~PresyncExpired
    /\ Before.curr.presync.age > 0
    /\ curr.presync = Before.curr.presync

\* C40, fourth witness: the block asked for arrived and the FSM left InSync
C40_Matched ==
    /\ Recorded /\ PresyncMatched
    /\ curr.state = "OutOfSync"

\* C40, fifth witness: a fallback left InSync while a record existed
C40_LeftInSync ==
    /\ Recorded /\ ~PresyncMatched
    /\ curr.state = "OutOfSync"

====
